---------------------------- MODULE Spec2Model ----------------------------
(***************************************************************************)
(* Cycle-accurate model of the Open Beam Interface gateware                *)
(* (glasgowcontrib/applet/open_beam_interface/__init__.py): BusController, *)
(* Supersampler, RasterScanner, CommandParser, CommandExecutor and         *)
(* ImageSerializer, and of the host encoder OBICommands.  Every component  *)
(* is a synchronous machine: one operator computes its combinational       *)
(* outputs from the registers, one computes the registers after the clock  *)
(* edge.  One action is one clock tick of the design under test.           *)
(***************************************************************************)
EXTENDS Integers, Sequences, FiniteSets, TLC

VARIABLES
    bus,      \* BusController registers
    fifo,     \* BusController.adc_stream_fifo (SyncFIFOBuffered)
    ss,       \* Supersampler registers (expansion and averaging FSMs)
    rs,       \* RasterScanner registers
    ex,       \* CommandExecutor registers (both FSMs)
    par,      \* CommandParser registers
    ser,      \* ImageSerializer registers
    env,      \* the test bench: what is still to be fed to the design
    h         \* history of the handshakes observed so far

vars == <<bus, fifo, ss, rs, ex, par, ser, env, h>>

(***************************************************************************)
(* Program constants.                                                      *)
(***************************************************************************)
adc_half_period == 3
adc_latency == 6
FRAC_BITS == 8

T_Synchronize == 0
T_RasterRegion == 1
T_RasterPixel == 2
T_RasterPixelRun == 3
T_VectorPixel == 4
T_Control == 5
I_Abort == 1
I_Flush == 2

(***************************************************************************)
(* Bit vectors.  A Signal of width w holds a value modulo 2^w.             *)
(***************************************************************************)
Pow2(n) == 2 ^ n

Trunc(v, w) == v % Pow2(w)

Bit(v, i) == (v \div Pow2(i)) % 2

\* value[lo:hi] of a signal of width w; a slice is clamped to the width
Slice(v, w, lo, hi) ==
    LET top == IF hi > w THEN w ELSE hi
    IN  IF top <= lo THEN 0 ELSE (v \div Pow2(lo)) % Pow2(top - lo)

\* value after value[lo:hi].eq(x) on a signal of width w
SetSlice(v, w, lo, hi, x) ==
    LET top == IF hi > w THEN w ELSE hi
    IN  IF top <= lo THEN v
        ELSE (v % Pow2(lo)) + Pow2(lo) * (x % Pow2(top - lo))
             + Pow2(top) * (v \div Pow2(top))

(***************************************************************************)
(* Command.payload is a union: every view is a bit field of the same 88    *)
(* bits.  The payload is kept as 11 bytes, least significant first.        *)
(***************************************************************************)
ZeroPayload == [i \in 1..11 |-> 0]

\* the three payload bytes from byte index k (0-based) on, as one 24-bit value
Window(p, k) ==
    p[k + 1] + (IF k + 2 <= 11 THEN 256 * p[k + 2] ELSE 0)
             + (IF k + 3 <= 11 THEN 65536 * p[k + 3] ELSE 0)

\* the n-bit view at bit offset lo (n <= 16)
Field(p, lo, n) == (Window(p, lo \div 8) \div Pow2(lo % 8)) % Pow2(n)

\* the payload after the n-bit view at offset lo is assigned v
SetField(p, lo, n, v) ==
    LET k == lo \div 8
        sh == lo % 8
        w == SetSlice(Window(p, k), 24, sh, sh + n, v)
    IN  [j \in 1..11 |->
            IF j = k + 1 THEN w % 256
            ELSE IF j = k + 2 THEN (w \div 256) % 256
            ELSE IF j = k + 3 THEN (w \div 65536) % 256
            ELSE p[j]]

\* views of the union, as (offset, width)
V_cookie == <<0, 16>>
V_raster_mode == <<16, 1>>
V_x_start == <<0, 14>>
V_x_count == <<14, 14>>
V_x_step == <<28, 16>>
V_y_start == <<44, 14>>
V_y_count == <<58, 14>>
V_y_step == <<72, 16>>
V_raster_pixel == <<0, 16>>
V_run_length == <<0, 16>>
V_run_dwell == <<16, 16>>
V_x_coord == <<0, 14>>
V_y_coord == <<14, 14>>
V_vec_dwell == <<28, 16>>
V_control_instruction == <<0, 8>>

View(p, v) == Field(p, v[1], v[2])


(***************************************************************************)
(* SyncFIFOBuffered(depth = adc_latency): an inner queue of depth - 1      *)
(* whose registered read port is the last storage element.                 *)
(***************************************************************************)
FifoInit == [q |-> <<>>, r_rdy |-> 0, r_data |-> [adc_code |-> 0, last |-> 0]]

fifo_w_rdy(f) == IF Len(f.q) # adc_latency - 1 THEN 1 ELSE 0

FifoNext(f, w_en, w_data, r_en) ==
    LET do_write == w_en = 1 /\ fifo_w_rdy(f) = 1
        inner_read == Len(f.q) # 0 /\ (f.r_rdy = 0 \/ r_en = 1)
        rest == IF inner_read THEN Tail(f.q) ELSE f.q
    IN  [q      |-> IF do_write THEN Append(rest, w_data) ELSE rest,
         r_rdy  |-> IF inner_read THEN 1 ELSE IF r_en = 1 THEN 0 ELSE f.r_rdy,
         r_data |-> IF inner_read THEN Head(f.q) ELSE f.r_data]

(***************************************************************************)
(* BusController.                                                          *)
(***************************************************************************)
BusInit(half_period) ==
    [half |-> half_period, fsm |-> "ADC Wait", adc_cycles |-> 0, adc_clk |-> 0,
     accept_sample |-> 0, last_sample |-> 0,
     dac_x_code |-> 0, dac_y_code |-> 0]

\* the entry one AdcRead younger than the oldest
Oldest_early(queue) == Bit(queue, adc_latency - 2)

\* the oldest entry of a queue of adc_latency flags
Oldest(queue) == Bit(queue, adc_latency - 1)

\* Cat(flag, queue) assigned back to the adc_latency-bit queue
Push(queue, flag) == Trunc(2 * queue + flag, adc_latency)

\* adc_oe held for one more tick, into the X DAC write
adc_oe_held(b) ==
    IF b.fsm \in {"ADC Read", "X DAC Write"} THEN 1
    ELSE IF b.fsm = "ADC Wait" /\ b.adc_clk = 1 /\ b.adc_cycles = 0 THEN 1
    ELSE 0

adc_oe(b) ==
    IF b.fsm = "ADC Read" THEN 1
    ELSE IF b.fsm = "ADC Wait" /\ b.adc_clk = 1 /\ b.adc_cycles = 0 THEN 1
    ELSE 0

dac_x_le(b) == IF b.fsm = "X DAC Write" THEN 1 ELSE 0

dac_y_le(b) == IF b.fsm = "Y DAC Write" THEN 1 ELSE 0

\* the FPGA output drivers enabled during the ADC read as well
data_oe_read(b) == IF b.fsm \in {"ADC Read", "X DAC Write", "Y DAC Write"} THEN 1 ELSE 0

data_oe(b) == IF b.fsm \in {"X DAC Write", "Y DAC Write"} THEN 1 ELSE 0

data_o(b) ==
    IF b.fsm = "X DAC Write" THEN b.dac_x_code
    ELSE IF b.fsm = "Y DAC Write" THEN b.dac_y_code
    ELSE 0

dac_clk(b) == b.adc_clk

\* adc_stream_fifo.w_en
bus_w_en(b) == IF b.fsm = "ADC Read" THEN Oldest(b.accept_sample) ELSE 0

\* adc_stream_fifo.w_data, with data_i on the bus
bus_w_data(b, data_i) == [adc_code |-> Trunc(data_i, 14), last |-> Oldest(b.last_sample)]

\* dac_stream.ready
bus_dac_ready(b, dac_valid, w_rdy) ==
    IF b.fsm = "ADC Read" /\ dac_valid = 1 /\ w_rdy = 1 THEN 1 ELSE 0

\* the divider paused while the FSM writes the X DAC
BusDivider_paused(b) ==
    IF b.fsm = "X DAC Write"
    THEN b
    ELSE IF b.adc_cycles = b.half - 1
    THEN [b EXCEPT !.adc_cycles = 0, !.adc_clk = 1 - b.adc_clk]
    ELSE [b EXCEPT !.adc_cycles = b.adc_cycles + 1]

BusDivider(b) ==
    IF b.adc_cycles = b.half - 1
    THEN [b EXCEPT !.adc_cycles = 0, !.adc_clk = 1 - b.adc_clk]
    ELSE [b EXCEPT !.adc_cycles = b.adc_cycles + 1]

\* the latched DAC codes cleared in a round without a transfer
BusFsm_clear_codes(b, dac_valid, dac_data, w_rdy) ==
    CASE b.fsm = "ADC Wait" ->
            IF b.adc_clk = 1 /\ b.adc_cycles = 0
            THEN [b EXCEPT !.fsm = "ADC Read"]
            ELSE b
      [] b.fsm = "ADC Read" ->
            IF dac_valid = 1 /\ w_rdy = 1
            THEN [b EXCEPT !.fsm = "X DAC Write",
                           !.dac_x_code = dac_data.dac_x_code,
                           !.dac_y_code = dac_data.dac_y_code,
                           !.accept_sample = Push(b.accept_sample, 1),
                           !.last_sample = Push(b.last_sample, dac_data.last)]
            ELSE [b EXCEPT !.fsm = "X DAC Write",
                           !.dac_x_code = 0,
                           !.dac_y_code = 0,
                           !.accept_sample = Push(b.accept_sample, 0),
                           !.last_sample = Push(b.last_sample, 0)]
      [] b.fsm = "X DAC Write" -> [b EXCEPT !.fsm = "Y DAC Write"]
      [] b.fsm = "Y DAC Write" -> [b EXCEPT !.fsm = "ADC Wait"]

\* the bus cycle restarted right after the Y DAC write, without the ADC Wait
BusFsm_no_wait(b, dac_valid, dac_data, w_rdy) ==
    CASE b.fsm = "ADC Wait" ->
            IF b.adc_clk = 1 /\ b.adc_cycles = 0
            THEN [b EXCEPT !.fsm = "ADC Read"]
            ELSE b
      [] b.fsm = "ADC Read" ->
            IF dac_valid = 1 /\ w_rdy = 1
            THEN [b EXCEPT !.fsm = "X DAC Write",
                           !.dac_x_code = dac_data.dac_x_code,
                           !.dac_y_code = dac_data.dac_y_code,
                           !.accept_sample = Push(b.accept_sample, 1),
                           !.last_sample = Push(b.last_sample, dac_data.last)]
            ELSE [b EXCEPT !.fsm = "X DAC Write",
                           !.accept_sample = Push(b.accept_sample, 0),
                           !.last_sample = Push(b.last_sample, 0)]
      [] b.fsm = "X DAC Write" -> [b EXCEPT !.fsm = "Y DAC Write"]
      [] b.fsm = "Y DAC Write" -> [b EXCEPT !.fsm = "ADC Read"]

BusFsm(b, dac_valid, dac_data, w_rdy) ==
    CASE b.fsm = "ADC Wait" ->
            IF b.adc_clk = 1 /\ b.adc_cycles = 0
            THEN [b EXCEPT !.fsm = "ADC Read"]
            ELSE b
      [] b.fsm = "ADC Read" ->
            IF dac_valid = 1 /\ w_rdy = 1
            THEN [b EXCEPT !.fsm = "X DAC Write",
                           !.dac_x_code = dac_data.dac_x_code,
                           !.dac_y_code = dac_data.dac_y_code,
                           !.accept_sample = Push(b.accept_sample, 1),
                           !.last_sample = Push(b.last_sample, dac_data.last)]
            ELSE [b EXCEPT !.fsm = "X DAC Write",
                           !.accept_sample = Push(b.accept_sample, 0),
                           !.last_sample = Push(b.last_sample, 0)]
      [] b.fsm = "X DAC Write" -> [b EXCEPT !.fsm = "Y DAC Write"]
      [] b.fsm = "Y DAC Write" -> [b EXCEPT !.fsm = "ADC Wait"]

\* the registers after one tick: the FSM reads the divider's current value
BusNext(b, dac_valid, dac_data, w_rdy) ==
    LET d == BusDivider(b)
        f == BusFsm(b, dac_valid, dac_data, w_rdy)
    IN  [f EXCEPT !.adc_cycles = d.adc_cycles, !.adc_clk = d.adc_clk]

(***************************************************************************)
(* Supersampler: the expansion FSM and the averaging FSM.                  *)
(***************************************************************************)
SsInit ==
    [exp |-> "Wait", dac_x_code |-> 0, dac_y_code |-> 0, dwell_time |-> 0,
     dwell_counter |-> 0, avg |-> "Start", running_average |-> 0]

ss_dac_ready(s) == IF s.exp = "Wait" THEN 1 ELSE 0

super_dac_valid(s) == IF s.exp = "Generate" THEN 1 ELSE 0

\* super_dac_stream.data; last is driven only inside If(ready)
super_dac_data(s, ready) ==
    [dac_x_code |-> s.dac_x_code, dac_y_code |-> s.dac_y_code,
     last |-> IF s.exp = "Generate" /\ ready = 1 /\ s.dwell_counter = s.dwell_time
              THEN 1 ELSE 0]

\* the expansion ends one transaction early for a dwell above 0
ExpandNext_short(s, dac_valid, dac_data, super_ready) ==
    CASE s.exp = "Wait" ->
            IF dac_valid = 1
            THEN [s EXCEPT !.exp = "Generate",
                           !.dac_x_code = dac_data.dac_x_code,
                           !.dac_y_code = dac_data.dac_y_code,
                           !.dwell_time = dac_data.dwell_time,
                           !.dwell_counter = 0]
            ELSE s
      [] s.exp = "Generate" ->
            IF super_ready = 1
            THEN IF s.dwell_counter + 1 >= s.dwell_time
                 THEN [s EXCEPT !.exp = "Wait"]
                 ELSE [s EXCEPT !.dwell_counter = Trunc(s.dwell_counter + 1, 16)]
            ELSE s

ExpandNext(s, dac_valid, dac_data, super_ready) ==
    CASE s.exp = "Wait" ->
            IF dac_valid = 1
            THEN [s EXCEPT !.exp = "Generate",
                           !.dac_x_code = dac_data.dac_x_code,
                           !.dac_y_code = dac_data.dac_y_code,
                           !.dwell_time = dac_data.dwell_time,
                           !.dwell_counter = 0]
            ELSE s
      [] s.exp = "Generate" ->
            IF super_ready = 1
            THEN IF s.dwell_counter = s.dwell_time
                 THEN [s EXCEPT !.exp = "Wait"]
                 ELSE [s EXCEPT !.dwell_counter = Trunc(s.dwell_counter + 1, 16)]
            ELSE s

super_adc_ready(s) == IF s.avg \in {"Start", "Average"} THEN 1 ELSE 0

ss_adc_valid(s) == IF s.avg = "Wait" THEN 1 ELSE 0

\* running_average.eq((running_average + adc_code) >> 1)
\* the sum truncated to the 14 bits of running_average before the shift
Average_narrow_sum(running_average, adc_code) == Trunc(running_average + adc_code, 14) \div 2

\* the sum kept without the halving shift
Average_no_shift(running_average, adc_code) == Trunc(running_average + adc_code, 14)

Average(running_average, adc_code) == Trunc((running_average + adc_code) \div 2, 14)

\* a sample arriving while the result waits is averaged into it
AverageNext_mix(s, adc_valid, adc_data, adc_ready) ==
    CASE s.avg = "Start" ->
            IF adc_valid = 1
            THEN [s EXCEPT !.running_average = adc_data.adc_code,
                           !.avg = IF adc_data.last = 1 THEN "Wait" ELSE "Average"]
            ELSE s
      [] s.avg = "Average" ->
            IF adc_valid = 1
            THEN [s EXCEPT !.running_average = Average(s.running_average, adc_data.adc_code),
                           !.avg = IF adc_data.last = 1 THEN "Wait" ELSE "Average"]
            ELSE s
      [] s.avg = "Wait" ->
            LET t == IF adc_valid = 1
                     THEN [s EXCEPT !.running_average =
                                        Average(s.running_average, adc_data.adc_code)]
                     ELSE s
            IN  IF adc_ready = 1 THEN [t EXCEPT !.avg = "Start"] ELSE t

AverageNext(s, adc_valid, adc_data, adc_ready) ==
    CASE s.avg = "Start" ->
            IF adc_valid = 1
            THEN [s EXCEPT !.running_average = adc_data.adc_code,
                           !.avg = IF adc_data.last = 1 THEN "Wait" ELSE "Average"]
            ELSE s
      [] s.avg = "Average" ->
            IF adc_valid = 1
            THEN [s EXCEPT !.running_average = Average(s.running_average, adc_data.adc_code),
                           !.avg = IF adc_data.last = 1 THEN "Wait" ELSE "Average"]
            ELSE s
      [] s.avg = "Wait" ->
            IF adc_ready = 1 THEN [s EXCEPT !.avg = "Start"] ELSE s

SsNext(s, dac_valid, dac_data, super_ready, adc_valid, adc_data, adc_ready) ==
    LET e == ExpandNext(s, dac_valid, dac_data, super_ready)
        a == AverageNext(s, adc_valid, adc_data, adc_ready)
    IN  [e EXCEPT !.avg = a.avg, !.running_average = a.running_average]

(***************************************************************************)
(* RasterScanner.  roi_data is roi_stream.data, a RasterRegion view of     *)
(* whatever drives the stream in this tick.                                *)
(***************************************************************************)
RegionOf(p) ==
    [x_start |-> View(p, V_x_start), x_count |-> View(p, V_x_count),
     x_step  |-> View(p, V_x_step),  y_start |-> View(p, V_y_start),
     y_count |-> View(p, V_y_count), y_step  |-> View(p, V_y_step)]

RsInit ==
    [fsm |-> "Get ROI", region |-> RegionOf(ZeroPayload),
     x_accum |-> 0, x_count |-> 0, y_accum |-> 0, y_count |-> 0]

\* Cat(C(0, FRAC_BITS), start) assigned to a 14 + FRAC_BITS bit accumulator
StartAccum(start) == Trunc(start * Pow2(FRAC_BITS), 14 + FRAC_BITS)

\* accum[FRAC_BITS:]
Code(accum) == accum \div Pow2(FRAC_BITS)

\* a region accepted in every state of the scanner
roi_ready_always(r) == 1

roi_ready(r) == IF r.fsm = "Get ROI" THEN 1 ELSE 0

rs_dwell_ready(r, dac_ready) == IF r.fsm = "Scan" THEN dac_ready ELSE 0

rs_dac_valid(r, dwell_valid) == IF r.fsm = "Scan" THEN dwell_valid ELSE 0

rs_dac_data(r, dwell_data) ==
    [dac_x_code |-> Code(r.x_accum), dac_y_code |-> Code(r.y_accum),
     dwell_time |-> dwell_data]

\* the y axis advancing by the region's own y_step
ScanStep_y_step(r, roi_data, abort) ==
    LET row_end == r.x_count = r.region.x_count
        frame_end == row_end /\ r.y_count = r.region.y_count
    IN  [r EXCEPT
            !.fsm = IF frame_end \/ abort = 1 THEN "Get ROI" ELSE "Scan",
            !.y_accum = IF row_end /\ ~frame_end
                        THEN Trunc(r.y_accum + r.region.y_step, 14 + FRAC_BITS)
                        ELSE r.y_accum,
            !.y_count = IF row_end /\ ~frame_end
                        THEN Trunc(r.y_count + 1, 14) ELSE r.y_count,
            !.x_accum = IF row_end THEN StartAccum(roi_data.x_start)
                        ELSE Trunc(r.x_accum + r.region.x_step, 14 + FRAC_BITS),
            !.x_count = IF row_end THEN 0 ELSE Trunc(r.x_count + 1, 14)]

\* the Scan state in a tick with dwell_stream.valid & dac_stream.ready
ScanStep(r, roi_data, abort) ==
    LET row_end == r.x_count = r.region.x_count
        frame_end == row_end /\ r.y_count = r.region.y_count
    IN  [r EXCEPT
            !.fsm = IF frame_end \/ abort = 1 THEN "Get ROI" ELSE "Scan",
            !.y_accum = IF row_end /\ ~frame_end
                        THEN Trunc(r.y_accum + r.region.x_step, 14 + FRAC_BITS)
                        ELSE r.y_accum,
            !.y_count = IF row_end /\ ~frame_end
                        THEN Trunc(r.y_count + 1, 14) ELSE r.y_count,
            !.x_accum = IF row_end THEN StartAccum(roi_data.x_start)
                        ELSE Trunc(r.x_accum + r.region.x_step, 14 + FRAC_BITS),
            !.x_count = IF row_end THEN 0 ELSE Trunc(r.x_count + 1, 14)]

RsNext(r, roi_valid, roi_data, dwell_valid, dac_ready, abort) ==
    CASE r.fsm = "Get ROI" ->
            IF roi_valid = 1
            THEN [fsm |-> "Scan", region |-> roi_data,
                  x_accum |-> StartAccum(roi_data.x_start), x_count |-> 0,
                  y_accum |-> StartAccum(roi_data.y_start), y_count |-> 0]
            ELSE r
      [] r.fsm = "Scan" ->
            IF dwell_valid = 1 /\ dac_ready = 1
            THEN ScanStep(r, roi_data, abort)
            ELSE r

(***************************************************************************)
(* CommandExecutor: the command execution FSM and the output-merge FSM     *)
(* around BusController, Supersampler and RasterScanner.                   *)
(***************************************************************************)
ExInit ==
    [fsm |-> "Fetch", command |-> [type |-> 0, payload |-> ZeroPayload],
     raster_mode |-> 0, in_flight_pixels |-> 0, run_length |-> 0,
     out |-> "Imaging"]

Executing(e, type) == e.fsm = "Execute" /\ e.command.type = type

sync_req(e) == IF Executing(e, T_Synchronize) THEN 1 ELSE 0

ex_roi_valid(e) == IF Executing(e, T_RasterRegion) THEN 1 ELSE 0

ex_dwell_valid(e) ==
    IF Executing(e, T_RasterPixel) \/ Executing(e, T_RasterPixelRun) THEN 1 ELSE 0

ex_dwell_data(e) ==
    IF Executing(e, T_RasterPixel) THEN View(e.command.payload, V_raster_pixel)
    ELSE IF Executing(e, T_RasterPixelRun) THEN View(e.command.payload, V_run_dwell)
    ELSE 0

vector_valid(e) == IF Executing(e, T_VectorPixel) THEN 1 ELSE 0

vector_data(e) ==
    [dac_x_code |-> View(e.command.payload, V_x_coord),
     dac_y_code |-> View(e.command.payload, V_y_coord),
     dwell_time |-> View(e.command.payload, V_vec_dwell)]

ex_abort(e) ==
    IF Executing(e, T_Control)
       /\ View(e.command.payload, V_control_instruction) = I_Abort
    THEN 1 ELSE 0

\* roi_stream.flush / vector_stream.flush
roi_flush(e) ==
    IF Executing(e, T_Control) /\ e.raster_mode = 1
       /\ View(e.command.payload, V_control_instruction) = I_Flush
    THEN 1 ELSE 0

vector_flush(e) ==
    IF Executing(e, T_Control) /\ e.raster_mode = 0
       /\ View(e.command.payload, V_control_instruction) = I_Flush
    THEN 1 ELSE 0

cmd_ready(e) == IF e.fsm = "Fetch" THEN 1 ELSE 0

\* img_stream of the output-merge FSM
img_valid(e, s) ==
    IF e.out = "Imaging" THEN ss_adc_valid(s) ELSE 1

\* the cookie word taken from the low byte of the payload only
img_data_low_byte(e, s) ==
    CASE e.out = "Imaging" -> s.running_average
      [] e.out = "Write FFFF" -> 65535
      [] e.out = "Write cookie" -> View(e.command.payload, V_control_instruction)

\* the pixel word extended with ones instead of zeros
img_data_ones_extended(e, s) ==
    CASE e.out = "Imaging" -> 49152 + s.running_average
      [] e.out = "Write FFFF" -> 65535
      [] e.out = "Write cookie" -> View(e.command.payload, V_cookie)

img_data(e, s) ==
    CASE e.out = "Imaging" -> s.running_average
      [] e.out = "Write FFFF" -> 65535
      [] e.out = "Write cookie" -> View(e.command.payload, V_cookie)

\* supersampler.adc_stream.ready
ss_adc_ready(e, img_ready) == IF e.out = "Imaging" THEN img_ready ELSE 0

retire_pixel(e, s, img_ready) ==
    IF e.out = "Imaging" /\ ss_adc_valid(s) = 1 /\ img_ready = 1 THEN 1 ELSE 0

sync_ack(e, img_ready) == IF e.out = "Write cookie" /\ img_ready = 1 THEN 1 ELSE 0

\* the switch between the raster and the vector source of supersampler.dac_stream
ss_dac_valid(e, r) ==
    IF e.raster_mode = 1 THEN rs_dac_valid(r, ex_dwell_valid(e)) ELSE vector_valid(e)

\* the supersampler fed from the raster scanner in both modes
ss_dac_data_raster_only(e, r) == rs_dac_data(r, ex_dwell_data(e))

ss_dac_data(e, r) ==
    IF e.raster_mode = 1 THEN rs_dac_data(r, ex_dwell_data(e)) ELSE vector_data(e)

rs_dac_ready(e, s) == IF e.raster_mode = 1 THEN ss_dac_ready(s) ELSE 0

vector_ready(e, s) == IF e.raster_mode = 0 THEN ss_dac_ready(s) ELSE 0

dwell_ready(e, r, s) == rs_dwell_ready(r, rs_dac_ready(e, s))

submit_pixel(e, r, s) ==
    IF (ex_dwell_valid(e) = 1 /\ dwell_ready(e, r, s) = 1)
       \/ (vector_valid(e) = 1 /\ vector_ready(e, s) = 1)
    THEN 1 ELSE 0

\* raster_mode latched when the Synchronize is fetched
ExecFsm_mode_at_fetch(e, r, s, cmd_valid, cmd_data, img_ready) ==
    CASE e.fsm = "Fetch" ->
            IF cmd_valid = 1
            THEN [e EXCEPT !.fsm = "Execute", !.command = cmd_data,
                           !.raster_mode = IF cmd_data.type = T_Synchronize
                                           THEN View(cmd_data.payload, V_raster_mode)
                                           ELSE e.raster_mode]
            ELSE e
      [] Executing(e, T_Synchronize) ->
            IF sync_ack(e, img_ready) = 1 THEN [e EXCEPT !.fsm = "Fetch"] ELSE e
      [] Executing(e, T_RasterRegion) ->
            IF roi_ready(r) = 1 THEN [e EXCEPT !.fsm = "Fetch"] ELSE e
      [] Executing(e, T_RasterPixel) ->
            IF dwell_ready(e, r, s) = 1 THEN [e EXCEPT !.fsm = "Fetch"] ELSE e
      [] Executing(e, T_RasterPixelRun) ->
            IF dwell_ready(e, r, s) = 1
            THEN IF e.run_length = View(e.command.payload, V_run_length)
                 THEN [e EXCEPT !.fsm = "Fetch", !.run_length = 0]
                 ELSE [e EXCEPT !.run_length = Trunc(e.run_length + 1, 16)]
            ELSE e
      [] Executing(e, T_VectorPixel) ->
            IF vector_ready(e, s) = 1 THEN [e EXCEPT !.fsm = "Fetch"] ELSE e
      [] Executing(e, T_Control) -> [e EXCEPT !.fsm = "Fetch"]
      [] OTHER -> e

\* the command execution FSM
ExecFsm(e, r, s, cmd_valid, cmd_data, img_ready) ==
    CASE e.fsm = "Fetch" ->
            IF cmd_valid = 1
            THEN [e EXCEPT !.fsm = "Execute", !.command = cmd_data]
            ELSE e
      [] Executing(e, T_Synchronize) ->
            IF sync_ack(e, img_ready) = 1
            THEN [e EXCEPT !.fsm = "Fetch",
                           !.raster_mode = View(e.command.payload, V_raster_mode)]
            ELSE e
      [] Executing(e, T_RasterRegion) ->
            IF roi_ready(r) = 1 THEN [e EXCEPT !.fsm = "Fetch"] ELSE e
      [] Executing(e, T_RasterPixel) ->
            IF dwell_ready(e, r, s) = 1 THEN [e EXCEPT !.fsm = "Fetch"] ELSE e
      [] Executing(e, T_RasterPixelRun) ->
            IF dwell_ready(e, r, s) = 1
            THEN IF e.run_length = View(e.command.payload, V_run_length)
                 THEN [e EXCEPT !.fsm = "Fetch", !.run_length = 0]
                 ELSE [e EXCEPT !.run_length = Trunc(e.run_length + 1, 16)]
            ELSE e
      [] Executing(e, T_VectorPixel) ->
            IF vector_ready(e, s) = 1 THEN [e EXCEPT !.fsm = "Fetch"] ELSE e
      [] Executing(e, T_Control) -> [e EXCEPT !.fsm = "Fetch"]
      [] OTHER -> e

\* the marker written as soon as a Synchronize is pending
OutFsm_no_drain(e, img_ready) ==
    CASE e.out = "Imaging" ->
            IF sync_req(e) = 1 THEN "Write FFFF" ELSE "Imaging"
      [] e.out = "Write FFFF" ->
            IF img_ready = 1 THEN "Write cookie" ELSE "Write FFFF"
      [] e.out = "Write cookie" ->
            IF img_ready = 1 THEN "Imaging" ELSE "Write cookie"

\* the output-merge FSM
OutFsm(e, img_ready) ==
    CASE e.out = "Imaging" ->
            IF e.in_flight_pixels = 0 /\ sync_req(e) = 1 THEN "Write FFFF" ELSE "Imaging"
      [] e.out = "Write FFFF" ->
            IF img_ready = 1 THEN "Write cookie" ELSE "Write FFFF"
      [] e.out = "Write cookie" ->
            IF img_ready = 1 THEN "Imaging" ELSE "Write cookie"

\* in_flight_pixels.eq(in_flight_pixels + submit_pixel - retire_pixel), 4 bits
InFlight(n, submit, retire) == (n + submit - retire) % 16

ExNext(e, r, s, cmd_valid, cmd_data, img_ready) ==
    [ExecFsm(e, r, s, cmd_valid, cmd_data, img_ready) EXCEPT
        !.out = OutFsm(e, img_ready),
        !.in_flight_pixels =
            InFlight(e.in_flight_pixels, submit_pixel(e, r, s),
                     retire_pixel(e, s, img_ready))]

(***************************************************************************)
(* CommandParser.  Every payload state deserializes one byte into a slice  *)
(* of a view of the command register (or of raster_pixel_count).           *)
(***************************************************************************)
ParInit ==
    [fsm |-> "Type", command |-> [type |-> 0, payload |-> ZeroPayload],
     raster_pixel_count |-> 0]

\* an unknown tag taken as a complete command
TypeNext_default(tag) ==
    CASE tag = T_Synchronize -> "Payload Synchronize 1 High"
      [] tag = T_RasterRegion -> "Payload Raster Region 1 High"
      [] tag = T_RasterPixel -> "Payload Raster Pixel Array High"
      [] tag = T_RasterPixelRun -> "Payload Raster Pixel Run 1 High"
      [] tag = T_VectorPixel -> "Payload Vector Pixel 1 High"
      [] tag = T_Control -> "Payload Control"
      [] OTHER -> "Submit"

\* the state entered from Type on a tag byte; an unknown tag matches no Case
TypeNext(tag) ==
    CASE tag = T_Synchronize -> "Payload Synchronize 1 High"
      [] tag = T_RasterRegion -> "Payload Raster Region 1 High"
      [] tag = T_RasterPixel -> "Payload Raster Pixel Array High"
      [] tag = T_RasterPixelRun -> "Payload Raster Pixel Run 1 High"
      [] tag = T_VectorPixel -> "Payload Vector Pixel 1 High"
      [] tag = T_Control -> "Payload Control"
      [] OTHER -> "Type"

\* the first byte of a word taken as its low byte
WordStates_low_first(view, prefix, next) ==
    LET nxt == IF next \in {"Submit", "Payload Raster Pixel Array Submit"}
               THEN next ELSE next \o " High"
    IN  (prefix \o " High" :> [view |-> view, lo |-> 0, hi |-> 8, next |-> prefix \o " Low"])
     @@ (prefix \o " Low"  :> [view |-> view, lo |-> 8, hi |-> 16,  next |-> nxt])

\* DeserializeWord(target, state_prefix, next_state): two states
WordStates(view, prefix, next) ==
    LET nxt == IF next \in {"Submit", "Payload Raster Pixel Array Submit"}
               THEN next ELSE next \o " High"
    IN  (prefix \o " High" :> [view |-> view, lo |-> 8, hi |-> 16, next |-> prefix \o " Low"])
     @@ (prefix \o " Low"  :> [view |-> view, lo |-> 0, hi |-> 8,  next |-> nxt])

\* Deserialize(target, state, next_state): one state, the whole target
ByteState(view, state, next) ==
    state :> [view |-> view, lo |-> 0, hi |-> view[2], next |-> next]

\* the target of raster_pixel_count, which is no view of the payload
V_count == <<-1, 16>>

PayloadStates ==
       WordStates(V_cookie, "Payload Synchronize 1", "Payload Synchronize 2")
    @@ ByteState(V_raster_mode, "Payload Synchronize 2 High", "Submit")
    @@ WordStates(V_x_start, "Payload Raster Region 1", "Payload Raster Region 2")
    @@ WordStates(V_x_count, "Payload Raster Region 2", "Payload Raster Region 3")
    @@ WordStates(V_x_step,  "Payload Raster Region 3", "Payload Raster Region 4")
    @@ WordStates(V_y_start, "Payload Raster Region 4", "Payload Raster Region 5")
    @@ WordStates(V_y_count, "Payload Raster Region 5", "Payload Raster Region 6")
    @@ WordStates(V_y_step,  "Payload Raster Region 6", "Submit")
    @@ WordStates(V_count, "Payload Raster Pixel Count", "Payload Raster Pixel Array")
    @@ WordStates(V_raster_pixel, "Payload Raster Pixel Array",
                  "Payload Raster Pixel Array Submit")
    @@ WordStates(V_run_length, "Payload Raster Pixel Run 1", "Payload Raster Pixel Run 2")
    @@ WordStates(V_run_dwell,  "Payload Raster Pixel Run 2", "Submit")
    @@ WordStates(V_x_coord,  "Payload Vector Pixel 1", "Payload Vector Pixel 2")
    @@ WordStates(V_y_coord,  "Payload Vector Pixel 2", "Payload Vector Pixel 3")
    @@ WordStates(V_vec_dwell, "Payload Vector Pixel 3", "Submit")
    @@ ByteState(V_control_instruction, "Payload Control", "Submit")

SubmitStates == {"Submit", "Payload Raster Pixel Array Submit"}

\* target[lo:hi].eq(byte) on the view st.view of the payload
\* a byte wider than the rest of the field saturates the field bits it fills
Deserialize_saturating(p, st, byte) ==
    LET w == st.view[2]
        top == IF st.hi > w THEN w ELSE st.hi
    IN  IF top <= st.lo THEN p
        ELSE IF byte >= Pow2(top - st.lo)
        THEN SetField(p, st.view[1] + st.lo, top - st.lo, Pow2(top - st.lo) - 1)
        ELSE SetField(p, st.view[1] + st.lo, top - st.lo, byte)

Deserialize(p, st, byte) ==
    LET w == st.view[2]
        top == IF st.hi > w THEN w ELSE st.hi
    IN  IF top <= st.lo THEN p
        ELSE SetField(p, st.view[1] + st.lo, top - st.lo, byte)

\* ready also while a command is offered
usb_ready_always(pa) == 1

usb_ready(pa) == IF pa.fsm \in SubmitStates THEN 0 ELSE 1

cmd_valid(pa) == IF pa.fsm \in SubmitStates THEN 1 ELSE 0

ParNext(pa, usb_valid, usb_data, ready) ==
    CASE pa.fsm = "Type" ->
            [pa EXCEPT !.command.type = usb_data,
                       !.fsm = IF usb_valid = 1 THEN TypeNext(usb_data) ELSE "Type"]
      [] pa.fsm = "Submit" ->
            IF ready = 1 THEN [pa EXCEPT !.fsm = "Type"] ELSE pa
      [] pa.fsm = "Payload Raster Pixel Array Submit" ->
            IF ready = 1
            THEN IF pa.raster_pixel_count = 0
                 THEN [pa EXCEPT !.fsm = "Type"]
                 ELSE [pa EXCEPT !.fsm = "Payload Raster Pixel Array Low",
                                 !.raster_pixel_count = Trunc(pa.raster_pixel_count - 1, 16)]
            ELSE pa
      [] OTHER ->
            LET st == PayloadStates[pa.fsm]
            IN  IF usb_valid = 0 THEN pa
                ELSE IF st.view = V_count
                THEN [pa EXCEPT !.fsm = st.next,
                                !.raster_pixel_count =
                                    SetSlice(pa.raster_pixel_count, 16, st.lo, st.hi, usb_data)]
                ELSE [pa EXCEPT !.fsm = st.next,
                                !.command.payload = Deserialize(pa.command.payload, st, usb_data)]

\* the command register after the parser has consumed one whole record
RECURSIVE ParseFrom(_, _)
ParseFrom(pa, bytes) ==
    IF bytes = <<>> THEN pa
    ELSE ParseFrom(ParNext(pa, 1, Head(bytes), 0), Tail(bytes))

(***************************************************************************)
(* ImageSerializer.                                                        *)
(***************************************************************************)
SerInit == [fsm |-> "High", high |-> 0]

ser_usb_data(se, i_data) == IF se.fsm = "High" THEN Slice(i_data, 16, 8, 16) ELSE se.high

ser_usb_valid(se, i_valid) == IF se.fsm = "High" THEN i_valid ELSE 1

\* img_stream.ready
ser_img_ready(se, u_ready) == IF se.fsm = "High" THEN u_ready ELSE 0

\* usb_stream.flush: no statement of the serializer drives it
ser_usb_flush(se, i_flush) == 0

\* the low byte register follows img_stream.data in the Low state as well
SerNext_relatch(se, i_valid, i_data, u_ready) ==
    CASE se.fsm = "High" ->
            [fsm |-> IF u_ready = 1 /\ i_valid = 1 THEN "Low" ELSE "High",
             high |-> Slice(i_data, 16, 0, 8)]
      [] se.fsm = "Low" ->
            [fsm |-> IF u_ready = 1 THEN "High" ELSE "Low",
             high |-> Slice(i_data, 16, 0, 8)]

SerNext(se, i_valid, i_data, u_ready) ==
    CASE se.fsm = "High" ->
            [fsm |-> IF u_ready = 1 /\ i_valid = 1 THEN "Low" ELSE "High",
             high |-> Slice(i_data, 16, 0, 8)]
      [] se.fsm = "Low" ->
            [se EXCEPT !.fsm = IF u_ready = 1 THEN "High" ELSE "Low"]

(***************************************************************************)
(* The host encoder, OBICommands.  struct.pack('>b'), ('>H'): one byte,    *)
(* two bytes big-endian.                                                   *)
(***************************************************************************)
PackB(v) == <<v>>

PackH(v) == <<v \div 256, v % 256>>

\* ffp_8_8(num): the binary digits of num for 2^7 .. 2^-8, most significant
\* first, read back as an integer.  n256 is num in units of 1/256.
RECURSIVE FfpDigits(_, _, _)
FfpDigits(n256, n, acc) ==
    IF n < 0 THEN acc
    ELSE LET b == n256 \div Pow2(n)
         IN  FfpDigits(n256 - b * Pow2(n), n - 1, 2 * acc + b)

ffp_8_8(n256) == FfpDigits(n256, 15, 0)

sync_cookie(cookie, raster) == PackB(T_Synchronize) \o PackH(cookie) \o PackB(raster)

pack_raster_region(x_start, x_count, x_step, y_start, y_count) ==
    PackB(T_RasterRegion) \o PackH(x_start) \o PackH(x_count) \o PackH(x_step)
    \o PackH(y_start) \o PackH(y_count)

raster_region(x_start, x_count, x_step256, y_start, y_count) ==
    pack_raster_region(x_start, x_count, ffp_8_8(x_step256), y_start, y_count)

raster_pixel(dwell_time) == PackB(T_RasterPixel) \o PackH(dwell_time)

raster_pixel_run(length, dwell_time) ==
    PackB(T_RasterPixelRun) \o PackH(length) \o PackH(dwell_time)

vector_pixel(x_coord, y_coord, dwell_time) ==
    PackB(T_VectorPixel) \o PackH(x_coord) \o PackH(y_coord) \o PackH(dwell_time)

control(instruction) == PackB(T_Control) \o PackB(instruction)

(***************************************************************************)
(* The executor pipeline (CommandExecutor with its submodules) driven on   *)
(* cmd_stream by what the parser delivers and observed on img_stream.      *)
(***************************************************************************)
MaxDwell == 1
MaxRun == 2

Dwells == 0..MaxDwell

\* the samples the ADC returns on data_i
AdcCodes == {16383}

\* the RasterRegion record the parser reads: the tag and six big-endian
\* words, y_step the last.  The host encoder OBICommands.raster_region writes
\* the first five only (pack_raster_region); a stream the gateware decodes as
\* one region has the sixth.
RegionWire(x_start, x_count, x_step, y_start, y_count, y_step) ==
    PackB(T_RasterRegion) \o PackH(x_start) \o PackH(x_count) \o PackH(x_step)
    \o PackH(y_start) \o PackH(y_count) \o PackH(y_step)

\* wire records as the parser expects them (tag, then the fields of section 6)
WireRecords ==
         {sync_cookie(4660, 0), sync_cookie(65535, 1)}
    \cup {RegionWire(0, 4, 256, 0, 2, 256)}
    \cup {raster_pixel(0)}
    \cup {raster_pixel_run(MaxRun, 0)}
    \cup {vector_pixel(3, 7, d) : d \in Dwells}
    \cup {control(i) : i \in {I_Abort, I_Flush}}

\* the command the parser submits for a record, its register holding prev before
ParsedCommand(prev, rec) ==
    ParseFrom([fsm |-> "Type", command |-> prev, raster_pixel_count |-> 0], rec).command

PipeInit ==
    /\ bus = BusInit(adc_half_period)
    /\ fifo = FifoInit
    /\ ss = SsInit
    /\ rs = RsInit
    /\ ex = ExInit
    /\ par = ParInit
    /\ ser = SerInit

\* one clock tick of CommandExecutor with the given inputs
PipeTick(c_valid, c_data, img_ready, data_i) ==
    LET w_rdy == fifo_w_rdy(fifo)
        sup_valid == super_dac_valid(ss)
        sup_ready == bus_dac_ready(bus, sup_valid, w_rdy)
    IN  /\ bus' = BusNext(bus, sup_valid, super_dac_data(ss, sup_ready), w_rdy)
        /\ fifo' = FifoNext(fifo, bus_w_en(bus), bus_w_data(bus, data_i),
                            super_adc_ready(ss))
        /\ ss' = SsNext(ss, ss_dac_valid(ex, rs), ss_dac_data(ex, rs), sup_ready,
                        fifo.r_rdy, fifo.r_data, ss_adc_ready(ex, img_ready))
        /\ rs' = RsNext(rs, ex_roi_valid(ex), RegionOf(ex.command.payload),
                        ex_dwell_valid(ex), rs_dac_ready(ex, ss), ex_abort(ex))
        /\ ex' = ExNext(ex, rs, ss, c_valid, c_data, img_ready)

\* the cookie field of a Synchronize wire record (0 for another record)
WireCookie(rec) == IF rec[1] = T_Synchronize THEN 256 * rec[2] + rec[3] ELSE 0

\* what the test bench records in a tick of the executor pipeline; rec is the wire
\* record of the command delivered in this tick, <<>> if none is
HistNext(rec, c_data, img_ready) ==
    LET fetch == rec # <<>>
        sub == submit_pixel(ex, rs, ss)
        ret == retire_pixel(ex, ss, img_ready)
        xfer == img_valid(ex, ss) = 1 /\ img_ready = 1
        pix == IF xfer /\ ex.out = "Imaging" THEN 1 ELSE 0
        pcmd == IF fetch /\ c_data.type \in {T_RasterPixel, T_RasterPixelRun, T_VectorPixel}
                THEN 1 ELSE 0
        roi == ex_roi_valid(ex) = 1 /\ roi_ready(rs) = 1
        word == IF ex.out = "Imaging" THEN "p" ELSE img_data(ex, ss)
        drop == bus_w_en(bus) = 1 /\ fifo_w_rdy(fifo) = 0
    IN  [owed   |-> h.owed + sub - pix,
         dcmd   |-> h.dcmd + pcmd - pix,
         w1     |-> IF xfer THEN h.w2 ELSE h.w1,
         w2     |-> IF xfer THEN word ELSE h.w2,
         cookie |-> IF fetch THEN WireCookie(rec) ELSE h.cookie,
         ack    |-> sync_ack(ex, img_ready),
         open   |-> IF fetch THEN (IF c_data.type = T_Synchronize THEN 1 ELSE 0)
                    ELSE IF sync_ack(ex, img_ready) = 1 THEN 0 ELSE h.open,
         mk     |-> IF fetch THEN 0
                    ELSE IF xfer /\ ex.out = "Write FFFF" THEN h.mk + 1 ELSE h.mk,
         rpix   |-> IF roi THEN 0
                    ELSE IF ex_dwell_valid(ex) = 1 THEN h.rpix + sub ELSE h.rpix,
         ab     |-> IF roi THEN 0
                    ELSE IF ex_abort(ex) = 1 /\ rs.fsm = "Scan" THEN 1 ELSE h.ab,
         lost   |-> IF drop /\ Oldest(bus.last_sample) = 1 THEN h.lost + 1 ELSE h.lost,
         wrap   |-> IF (ex.in_flight_pixels = 15 /\ sub = 1 /\ ret = 0)
                       \/ (ex.in_flight_pixels = 0 /\ sub = 0 /\ ret = 1)
                    THEN 1 ELSE h.wrap]

HistInit ==
    [owed |-> 0, dcmd |-> 0, w1 |-> "p", w2 |-> "p", cookie |-> 0, ack |-> 0,
     open |-> 0, mk |-> 0, rpix |-> 0, ab |-> 0, lost |-> 0, wrap |-> 0]

\* one tick: the parser delivers the command of wire record rec (none if <<>>)
Tick(rec, img_ready, data_i) ==
    LET c_data == IF rec = <<>> THEN ex.command ELSE ParsedCommand(ex.command, rec)
        c_valid == IF rec = <<>> THEN 0 ELSE 1
    IN  /\ PipeTick(c_valid, c_data, img_ready, data_i)
        /\ h' = HistNext(rec, c_data, img_ready)
        /\ UNCHANGED <<par, ser>>

\* data_i matters only in a tick that writes the ADC FIFO
DataChoices == IF bus_w_en(bus) = 1 THEN AdcCodes ELSE {0}

MaxCmds == 4

Init ==
    /\ PipeInit
    /\ env = [left |-> MaxCmds]
    /\ h = HistInit

\* a tick in which the parser delivers the next command to a fetching executor
TickCmd ==
    /\ ex.fsm = "Fetch"
    /\ env.left > 0
    /\ \E rec \in WireRecords, img_ready \in {0, 1}, data_i \in DataChoices :
          Tick(rec, img_ready, data_i)
    /\ env' = [env EXCEPT !.left = env.left - 1]

\* a tick in which cmd_stream.valid is low or the executor is executing
TickNoCmd ==
    /\ \E img_ready \in {0, 1}, data_i \in DataChoices : Tick(<<>>, img_ready, data_i)
    /\ UNCHANGED env

Next == TickCmd \/ TickNoCmd

Spec == Init /\ [][Next]_vars

(***************************************************************************)
(* The same pipeline under a continuous stream of vector pixels and        *)
(* synchronizations with a consumer that may stall for any time.  Commands *)
(* stop once MaxLost pixels have been lost.                                *)
(***************************************************************************)
MaxLost == 12

StreamRecords == {vector_pixel(3, 7, 0), sync_cookie(4660, 0), sync_cookie(65535, 0)}

StreamCmd ==
    /\ ex.fsm = "Fetch"
    /\ h.lost < MaxLost
    /\ \E rec \in StreamRecords, img_ready \in {0, 1}, data_i \in DataChoices :
          Tick(rec, img_ready, data_i)
    /\ UNCHANGED env

StreamNoCmd ==
    /\ ex.fsm # "Fetch" \/ h.lost >= MaxLost
    /\ \E img_ready \in {0, 1}, data_i \in DataChoices : Tick(<<>>, img_ready, data_i)
    /\ UNCHANGED env

NextStream == StreamCmd \/ StreamNoCmd

SpecStream == Init /\ [][NextStream]_vars

(***************************************************************************)
(* RasterScanner alone.  The bench offers regions on roi_stream, holding   *)
(* valid and data until the handshake, and drives dwell_stream, the        *)
(* consumer's ready and abort freely.                                      *)
(***************************************************************************)
RegionPayload(x_start, x_count, x_step, y_start, y_count, y_step) ==
    ParseFrom(ParInit,
              RegionWire(x_start, x_count, x_step, y_start, y_count, y_step)).command.payload

Regions ==
    {RegionOf(RegionPayload(0, 4, 256, 0, 2, 256)),
     RegionOf(RegionPayload(5, 1, 384, 2, 1, 128))}

RasterInit ==
    /\ PipeInit
    /\ env \in [roi_valid : {0, 1}, roi : Regions]
    /\ h = [region |-> RegionOf(ZeroPayload), coords |-> <<>>, aborted |-> 0,
            done |-> 0]

RasterTick ==
    \E dwell_valid \in {0, 1}, dac_ready \in {0, 1}, abort \in {0, 1} :
        LET accept == env.roi_valid = 1 /\ roi_ready(rs) = 1
            emit == rs_dac_valid(rs, dwell_valid) = 1 /\ dac_ready = 1
            data == rs_dac_data(rs, 0)
        IN  /\ rs' = RsNext(rs, env.roi_valid, env.roi, dwell_valid, dac_ready, abort)
            /\ env' \in IF env.roi_valid = 1 /\ ~accept
                        THEN {env}
                        ELSE [roi_valid : {0, 1}, roi : Regions]
            /\ h' = IF accept
                    THEN [region |-> env.roi, coords |-> <<>>, aborted |-> 0, done |-> 0]
                    ELSE [h EXCEPT
                            !.coords = IF emit
                                       THEN Append(h.coords, <<data.dac_x_code, data.dac_y_code>>)
                                       ELSE h.coords,
                            !.aborted = IF rs.fsm = "Scan" /\ abort = 1 THEN 1 ELSE h.aborted,
                            !.done = IF rs.fsm = "Scan" /\ rs'.fsm = "Get ROI" THEN 1 ELSE h.done]
            /\ UNCHANGED <<bus, fifo, ss, ex, par, ser>>

NextRaster == RasterTick

SpecRaster == RasterInit /\ [][NextRaster]_vars

(***************************************************************************)
(* BusController alone, with its ADC FIFO.  The bench drives dac_stream,   *)
(* data_i and adc_stream.ready freely.                                     *)
(***************************************************************************)
DacCodes == {3, 16383}

BusInitStates ==
    /\ PipeInit
    /\ env = [idle |-> 0]
    /\ h = [idle |-> 0]

BusTick ==
    \E dac_valid \in {0, 1}, adc_ready \in {0, 1}, data_i \in DataChoices,
       x \in IF bus.fsm = "ADC Read" THEN DacCodes ELSE {3},
       last \in IF bus.fsm = "ADC Read" THEN {0, 1} ELSE {0} :
        LET w_rdy == fifo_w_rdy(fifo)
            dac_data == [dac_x_code |-> x, dac_y_code |-> 16383 - x, last |-> last]
        IN  /\ bus' = BusNext(bus, dac_valid, dac_data, w_rdy)
            /\ fifo' = FifoNext(fifo, bus_w_en(bus), bus_w_data(bus, data_i), adc_ready)
            /\ UNCHANGED <<ss, rs, ex, par, ser, env, h>>

NextBus == BusTick

SpecBus == BusInitStates /\ [][NextBus]_vars

(***************************************************************************)
(* Supersampler alone.  The bench drives dac_stream and super_adc_stream   *)
(* and both consumers' ready freely; a window of returned samples ends     *)
(* with last = 1 after at most MaxWindow samples.                          *)
(***************************************************************************)
MaxWindow == 3

SampleCodes == {0, 1, 6, 16383}

SuperInit ==
    /\ PipeInit
    /\ env = [idle |-> 0]
    /\ h = [window |-> <<>>, closed |-> 0, outs |-> 0, sent |-> 0, lasts |-> 0,
            acc |-> <<>>, same |-> 1]

SuperTick ==
    \E dac_valid \in {0, 1}, dwell \in Dwells, x \in DacCodes, super_ready \in {0, 1},
       adc_valid \in {0, 1}, code \in SampleCodes, last \in {0, 1}, adc_ready \in {0, 1} :
        LET dac_data == [dac_x_code |-> x, dac_y_code |-> 16383 - x, dwell_time |-> dwell]
            out == super_dac_data(ss, super_ready)
            adc_data == [adc_code |-> code, last |-> last]
            take == adc_valid = 1 /\ super_adc_ready(ss) = 1
            give == ss_adc_valid(ss) = 1 /\ adc_ready = 1
            accept == dac_valid = 1 /\ ss_dac_ready(ss) = 1
            send == super_dac_valid(ss) = 1 /\ super_ready = 1
        IN  /\ (take /\ Len(h.window) >= MaxWindow - 1) => last = 1
            /\ ss' = SsNext(ss, dac_valid, dac_data, super_ready, adc_valid, adc_data,
                            adc_ready)
            /\ h' = [window |-> IF take THEN Append(h.window, code)
                                ELSE IF give THEN <<>> ELSE h.window,
                     closed |-> IF take THEN last ELSE IF give THEN 0 ELSE h.closed,
                     outs   |-> IF take /\ last = 1 THEN 0
                                ELSE IF give THEN h.outs + 1 ELSE h.outs,
                     sent   |-> IF accept THEN 0 ELSE IF send THEN h.sent + 1 ELSE h.sent,
                     lasts  |-> IF accept THEN 0
                                ELSE IF send THEN h.lasts + out.last
                                ELSE h.lasts,
                     acc    |-> IF accept THEN <<dac_data>> ELSE h.acc,
                     same   |-> IF accept THEN 1
                                ELSE IF send /\ <<out.dac_x_code, out.dac_y_code>>
                                             # <<h.acc[1].dac_x_code, h.acc[1].dac_y_code>>
                                THEN 0 ELSE h.same]
            /\ UNCHANGED <<bus, fifo, rs, ex, par, ser, env>>

NextSuper == SuperTick

SpecSuper == SuperInit /\ [][NextSuper]_vars

(***************************************************************************)
(* CommandParser alone, fed the bytes of one record made by the host       *)
(* encoder followed by a Flush record.  usb_stream.valid and               *)
(* cmd_stream.ready are driven freely.                                     *)
(***************************************************************************)
EncodedRecords ==
         {sync_cookie(c, m) : c \in {1, 4660, 65535}, m \in {0, 1}}
    \cup {raster_region(0, 4, 256, 0, 2), raster_region(5, 16384, 384, 2, 9)}
    \cup {raster_pixel(d) : d \in {0, 258, 65535}}
    \cup {raster_pixel_run(l, d) : l \in {0, 513}, d \in {1, 65535}}
    \cup {vector_pixel(x, 16383, d) : x \in {3, 16384}, d \in {0, 772}}
    \cup {control(i) : i \in {I_Abort, I_Flush}}

ParserInit ==
    /\ PipeInit
    /\ \E rec \in EncodedRecords : env = [rec |-> rec, bytes |-> rec \o control(I_Flush)]
    /\ h = [consumed |-> 0, cmds |-> <<>>]

ParserTick ==
    \E usb_valid \in {0, 1}, ready \in {0, 1} :
        LET usb_data == IF env.bytes = <<>> THEN 0 ELSE Head(env.bytes)
            take == usb_valid = 1 /\ usb_ready(par) = 1
            give == cmd_valid(par) = 1 /\ ready = 1
        IN  /\ env.bytes = <<>> => usb_valid = 0
            /\ par' = ParNext(par, usb_valid, usb_data, ready)
            /\ env' = [env EXCEPT !.bytes = IF take THEN Tail(env.bytes) ELSE env.bytes]
            /\ h' = [consumed |-> h.consumed + (IF take THEN 1 ELSE 0),
                     cmds |-> IF give
                              THEN Append(h.cmds, [cmd |-> par.command, at |-> h.consumed,
                                                   next |-> par'.fsm])
                              ELSE h.cmds]
            /\ UNCHANGED <<bus, fifo, ss, rs, ex, ser>>

NextParser == ParserTick

SpecParser == ParserInit /\ [][NextParser]_vars

(***************************************************************************)
(* CommandParser fed wire records written byte by byte: a record in one of *)
(* the fixed layouts or a tag 2 record with a count and that many dwell    *)
(* values, after at most one byte that is no tag, and followed by a Flush  *)
(* record.                                                                 *)
(***************************************************************************)
FixedRecords ==
    {<<T_Synchronize, 18, 52, 1>>, <<T_Synchronize, 255, 254, 2>>,
     <<T_RasterRegion, 0, 5, 64, 1, 1, 128, 63, 255, 0, 2, 128, 1>>,
     <<T_RasterPixelRun, 2, 1, 255, 254>>,
     <<T_VectorPixel, 0, 3, 63, 255, 3, 4>>,
     <<T_Control, I_Abort>>, <<T_Control, I_Flush>>}

BatchRecords == {<<T_RasterPixel, 0, 1, 0, 7>>, <<T_RasterPixel, 0, 2, 0, 7, 0, 9>>}

UnknownTags == {6, 255}

WireInit ==
    /\ PipeInit
    /\ \E rec \in FixedRecords \cup BatchRecords,
          junk \in {<<>>} \cup {<<t>> : t \in UnknownTags} :
            env = [junk |-> junk, rec |-> rec, bytes |-> junk \o rec \o control(I_Flush)]
    /\ h = [consumed |-> 0, cmds |-> <<>>]

SpecWire == WireInit /\ [][NextParser]_vars

(***************************************************************************)
(* The executor pipeline run through a script of wire records: runs of     *)
(* raster pixels in a region, or vector pixels before and after a raster   *)
(* scan.  The records are in the layouts the parser reads, the region with *)
(* its y_step word; they are byte streams the gateware accepts, not the    *)
(* output of a host bench.  The parser delivers the next record of the     *)
(* script at any tick in which the executor fetches; the consumer may      *)
(* stall for any time.                                                     *)
(***************************************************************************)
ScriptRegion == RegionWire(0, 4, 256, 0, 2, 256)

Scripts ==
         {<<sync_cookie(65535, 1), ScriptRegion,
            raster_pixel_run(l1, 0), raster_pixel_run(l2, 1)>> :
                l1 \in 0..MaxRun, l2 \in 0..MaxRun}
    \cup {<<vector_pixel(3, 7, d), sync_cookie(65535, 1), ScriptRegion,
            raster_pixel(d), sync_cookie(4660, 0), vector_pixel(16383, 9, d)>> :
                d \in Dwells}

\* csub: submissions accepted since the last fetch; last: the record fetched
ScriptInit ==
    /\ PipeInit
    /\ \E todo \in Scripts : env = [todo |-> todo]
    /\ h = [csub |-> 0, last |-> <<>>]

ScriptTick(rec, img_ready) ==
    LET c_data == IF rec = <<>> THEN ex.command ELSE ParsedCommand(ex.command, rec)
        c_valid == IF rec = <<>> THEN 0 ELSE 1
    IN  /\ PipeTick(c_valid, c_data, img_ready, 16383)
        /\ h' = [csub |-> IF rec # <<>> THEN 0 ELSE h.csub + submit_pixel(ex, rs, ss),
                 last |-> IF rec # <<>> THEN rec ELSE h.last]
        /\ UNCHANGED <<par, ser>>

ScriptCmd ==
    /\ ex.fsm = "Fetch"
    /\ env.todo # <<>>
    /\ \E img_ready \in {0, 1} : ScriptTick(Head(env.todo), img_ready)
    /\ env' = [env EXCEPT !.todo = Tail(env.todo)]

ScriptNoCmd ==
    /\ \E img_ready \in {0, 1} : ScriptTick(<<>>, img_ready)
    /\ UNCHANGED env

NextScript == ScriptCmd \/ ScriptNoCmd

SpecScript == ScriptInit /\ [][NextScript]_vars

(***************************************************************************)
(* ImageSerializer alone.  The bench drives img_stream (valid, data and    *)
(* flush free in every tick) and usb_stream.ready, and records the words   *)
(* accepted and the bytes transferred.  It offers MaxWords words.          *)
(***************************************************************************)
MaxWords == 2

ImgWords == {255, 4660, 43605, 65280}

SerBenchInit ==
    /\ PipeInit
    /\ env = [left |-> MaxWords]
    /\ h = [words |-> <<>>, bytes |-> <<>>, flush_in |-> 0, flush_out |-> 0]

SerTick ==
    /\ \E i_valid \in (IF env.left > 0 THEN {0, 1} ELSE {0}), i_data \in ImgWords,
          i_flush \in {0, 1}, u_ready \in {0, 1} :
            LET word == i_valid = 1 /\ ser_img_ready(ser, u_ready) = 1
                byte == ser_usb_valid(ser, i_valid) = 1 /\ u_ready = 1
            IN  /\ ser' = SerNext(ser, i_valid, i_data, u_ready)
                /\ env' = [left |-> IF word THEN env.left - 1 ELSE env.left]
                /\ h' = [words |-> IF word THEN Append(h.words, i_data) ELSE h.words,
                         bytes |-> IF byte THEN Append(h.bytes, ser_usb_data(ser, i_data))
                                   ELSE h.bytes,
                         flush_in |-> i_flush,
                         flush_out |-> ser_usb_flush(ser, i_flush)]
    /\ UNCHANGED <<bus, fifo, ss, rs, ex, par>>

NextSer == SerTick

SpecSer == SerBenchInit /\ [][NextSer]_vars

(***************************************************************************)
(* BusController with its ADC FIFO, observed on its two streams.  The      *)
(* bench offers DAC transactions and takes ADC items at any tick, under    *)
(* either half period.  It records the outcome of the last adc_latency     *)
(* AdcRead ticks (hist), the last flags of the transactions accepted and   *)
(* not yet delivered on adc_stream (lasts), whether an item was delivered  *)
(* that is not the oldest of those (bad), and the writes made to a full    *)
(* FIFO (lost); it offers no transaction after such a write.  dac_stream   *)
(* is read in AdcRead ticks only, so the bench drives it in those.         *)
(***************************************************************************)
HalfPeriods == {2, adc_half_period}

FlowInit ==
    /\ PipeInit
    /\ env = [idle |-> 0]
    /\ h = [hist |-> <<>>, lasts |-> <<>>, bad |-> 0, lost |-> 0]

\* the bus controller elaborated with the half period chosen
FlowStart ==
    /\ env.idle = 0
    /\ \E half \in HalfPeriods :
          /\ bus' = BusInit(half)
          /\ env' = [idle |-> 1, half |-> half]
    /\ UNCHANGED <<fifo, ss, rs, ex, par, ser, h>>

FlowTick ==
    /\ env.idle = 1
    /\ \E dac_valid \in (IF bus.fsm = "ADC Read" /\ h.lost = 0 THEN {0, 1} ELSE {0}),
          last \in (IF bus.fsm = "ADC Read" THEN {0, 1} ELSE {0}),
          adc_ready \in {0, 1} :
            LET w_rdy == fifo_w_rdy(fifo)
                dac_data == [dac_x_code |-> 3, dac_y_code |-> 16380, last |-> last]
                accept == bus_dac_ready(bus, dac_valid, w_rdy) = 1
                deliver == fifo.r_rdy = 1 /\ adc_ready = 1
                read == bus.fsm = "ADC Read"
                entry == [acc |-> IF accept THEN 1 ELSE 0,
                          last |-> IF accept THEN last ELSE 0]
                hist == Append(h.hist, entry)
                rest == IF deliver /\ h.lasts # <<>> THEN Tail(h.lasts) ELSE h.lasts
            IN  /\ bus' = BusNext(bus, dac_valid, dac_data, w_rdy)
                /\ fifo' = FifoNext(fifo, bus_w_en(bus), bus_w_data(bus, 16383), adc_ready)
                /\ h' = [hist  |-> IF ~read THEN h.hist
                                   ELSE IF Len(hist) > adc_latency THEN Tail(hist)
                                   ELSE hist,
                         lasts |-> IF accept THEN Append(rest, last) ELSE rest,
                         bad   |-> IF deliver /\ (h.lasts = <<>>
                                                  \/ Head(h.lasts) # fifo.r_data.last)
                                   THEN 1 ELSE h.bad,
                         lost  |-> IF bus_w_en(bus) = 1 /\ w_rdy = 0 THEN 1 ELSE h.lost]
    /\ UNCHANGED <<ss, rs, ex, par, ser, env>>

NextFlow == FlowStart \/ FlowTick

SpecFlow == FlowInit /\ [][NextFlow]_vars

(***************************************************************************)
(* The stream of vector pixels with Abort and Flush commands in between,   *)
(* the consumer stalling for any time.                                     *)
(***************************************************************************)
ControlRecords == {vector_pixel(3, 7, 0), control(I_Abort), control(I_Flush)}

ControlCmd ==
    /\ ex.fsm = "Fetch"
    /\ h.lost < MaxLost
    /\ \E rec \in ControlRecords, img_ready \in {0, 1}, data_i \in DataChoices :
          Tick(rec, img_ready, data_i)
    /\ UNCHANGED env

ControlNoCmd ==
    /\ ex.fsm # "Fetch" \/ h.lost >= MaxLost
    /\ \E img_ready \in {0, 1}, data_i \in DataChoices : Tick(<<>>, img_ready, data_i)
    /\ UNCHANGED env

NextControl == ControlCmd \/ ControlNoCmd

SpecControl == Init /\ [][NextControl]_vars

(***************************************************************************)
(* Properties.                                                             *)
(***************************************************************************)

\* no pixel is in the supersampler's expansion, the bus accept queue, the ADC
\* FIFO or the averager
PipelineEmpty ==
    /\ ss.exp = "Wait"
    /\ bus.accept_sample = 0
    /\ fifo.q = <<>>
    /\ fifo.r_rdy = 0
    /\ ss.avg = "Start"

\* C1 (barrier count): when the 0xFFFF marker of a Synchronize has been
\* transferred, as many pixel words have been transferred on img_stream as
\* pixel-producing commands were accepted before that Synchronize.
C1_BarrierCount == ex.out = "Write cookie" => h.dcmd = 0

\* C2 (barrier ordering): while the output-merge FSM writes the marker or the
\* cookie, and when raster_mode has just been latched, no pixel is left
\* anywhere in the pipeline.
C2_BarrierOrdering ==
    (ex.out \in {"Write FFFF", "Write cookie"} \/ h.ack = 1) => PipelineEmpty

\* C3 (backpressure safety): whatever the stall pattern of the consumer, every
\* pixel submitted yields one output word: once the pipeline has drained, as
\* many pixel words have been delivered as pixels were submitted.
C3_NoPixelLost == PipelineEmpty => h.owed = 0

\* the i-th coordinate pair (from 1) of a row-major scan of x_count columns,
\* both axes advancing by x_step
RowMajor(region, i) ==
    LET col == (i - 1) % region.x_count
        row == (i - 1) \div region.x_count
    IN  <<Code(Trunc(StartAccum(region.x_start) + col * region.x_step, 14 + FRAC_BITS)),
          Code(Trunc(StartAccum(region.y_start) + row * region.x_step, 14 + FRAC_BITS))>>

\* C4 (raster completeness): absent abort, the scanner produces for an accepted
\* region exactly x_count * y_count coordinate pairs in row-major order and
\* then awaits the next region.
C4_RasterCompleteness ==
    h.aborted = 0 =>
        /\ Len(h.coords) <= h.region.x_count * h.region.y_count
        /\ \A i \in 1..Len(h.coords) : h.coords[i] = RowMajor(h.region, i)
        /\ h.done = 1 => Len(h.coords) = h.region.x_count * h.region.y_count

\* C5 (abort truncation): once Control.Abort has been executed during a scan
\* that has produced 3 coordinates, the scanner has left the scan and awaits
\* the next RasterRegion.
C5_AbortTruncation == (h.ab = 1 /\ h.rpix = 3) => rs.fsm = "Get ROI"

\* C6 (in_flight_pixels bound): the 4-bit counter is never incremented at 15
\* and never decremented at 0.
C6_InFlightNoWrap == h.wrap = 0

\* C7 (bus exclusivity): adc_oe is never asserted in a tick in which dac_x_le
\* or dac_y_le is asserted.
C7_BusExclusivity ==
    ~(adc_oe(bus) = 1 /\ (dac_x_le(bus) = 1 \/ dac_y_le(bus) = 1))

\* the ADC drives the bus for a sample whose DAC codes were latched before
C7_Witness ==
    /\ adc_oe(bus) = 1
    /\ bus.fsm = "ADC Read"
    /\ bus.dac_x_code = 16383
    /\ Oldest(bus.accept_sample) = 1

\* C8 (sync marker format): a Synchronize is acknowledged at the handshake of
\* its cookie word, which is the cookie unchanged and the word transferred
\* right after the one 0xFFFF written for this Synchronize; marker words are
\* written only while a Synchronize is executed, which ends only by that
\* acknowledgement.
C8_SyncMarkerFormat ==
    /\ h.ack = 1 => (h.w2 = h.cookie /\ h.w1 = 65535 /\ h.mk = 1 /\ h.open = 0)
    /\ ex.out # "Imaging" => (Executing(ex, T_Synchronize) /\ h.open = 1)
    /\ h.open = 1 => (Executing(ex, T_Synchronize) /\ h.mk <= 1)
    /\ ex.out = "Write cookie" => (h.mk = 1 /\ h.w2 = 65535)

\* a Synchronize with an even cookie has just been acknowledged, the marker
\* pair being the last two words transferred, with every pixel delivered
C8_Witness ==
    /\ h.ack = 1
    /\ h.cookie = 4660
    /\ h.w1 = 65535
    /\ h.w2 = 4660
    /\ h.owed = 0
    /\ h.wrap = 0

\* the host encoding of a parsed command
Reencode(cmd) ==
    LET p == cmd.payload
    IN  CASE cmd.type = T_Synchronize ->
                sync_cookie(View(p, V_cookie), View(p, V_raster_mode))
          [] cmd.type = T_RasterRegion ->
                pack_raster_region(View(p, V_x_start), View(p, V_x_count),
                                   View(p, V_x_step), View(p, V_y_start),
                                   View(p, V_y_count))
          [] cmd.type = T_RasterPixel -> raster_pixel(View(p, V_raster_pixel))
          [] cmd.type = T_RasterPixelRun ->
                raster_pixel_run(View(p, V_run_length), View(p, V_run_dwell))
          [] cmd.type = T_VectorPixel ->
                vector_pixel(View(p, V_x_coord), View(p, V_y_coord), View(p, V_vec_dwell))
          [] cmd.type = T_Control -> control(View(p, V_control_instruction))
          [] OTHER -> <<>>

\* C9 (command round trip): the parser submits the command of an encoded
\* record after consuming exactly the bytes of that record, the command
\* re-encodes to those bytes, and the parser then is in the Type state.
C9_RoundTrip ==
    /\ h.consumed > Len(env.rec) => Len(h.cmds) >= 1
    /\ Len(h.cmds) >= 1 =>
          /\ h.cmds[1].at = Len(env.rec)
          /\ Reencode(h.cmds[1].cmd) = env.rec
          /\ h.cmds[1].next = "Type"

\* avg_0 = s_0, avg_i = (avg_{i-1} + s_i) >> 1
RECURSIVE FoldAverage(_)
FoldAverage(samples) ==
    IF Len(samples) = 1 THEN samples[1]
    ELSE (FoldAverage(SubSeq(samples, 1, Len(samples) - 1)) + samples[Len(samples)]) \div 2

\* C10 (averaging correctness): the sample offered for a window of returned
\* ADC samples closed by last = 1 is the fold of the window (the raw sample
\* for a window of one), and one sample is emitted per closed window.
C10_AveragingCorrectness ==
    /\ h.closed = 1 => (ss_adc_valid(ss) = 1 /\ h.outs = 0
                        /\ ss.running_average = FoldAverage(h.window))
    /\ h.closed = 0 => (ss_adc_valid(ss) = 0 /\ h.outs <= 1)
    /\ (h.closed = 1 /\ Len(h.window) = 1) => ss.running_average = h.window[1]

\* a window of three samples is offered, its fold differing from each sample
C10_Witness ==
    /\ ss_adc_valid(ss) = 1
    /\ h.window = <<16383, 0, 6>>
    /\ ss.running_average = 4098

\* C11 (expansion): for an accepted (x, y, dwell) the supersampler transfers
\* dwell + 1 transactions on super_dac_stream, all with that (x, y), last set
\* on the final one only, and accepts no input before the final one.
C11_Expansion ==
    h.acc # <<>> =>
        /\ h.same = 1
        /\ ss.exp = "Generate" =>
              /\ h.sent <= h.acc[1].dwell_time
              /\ h.lasts = 0
              /\ ss_dac_ready(ss) = 0
        /\ ss.exp = "Wait" =>
              /\ h.sent = h.acc[1].dwell_time + 1
              /\ h.lasts = 1

\* an input of dwell MaxDwell has been expanded completely
C11_Witness ==
    /\ h.acc # <<>>
    /\ h.acc[1].dwell_time = MaxDwell
    /\ h.acc[1].dac_x_code = 16383
    /\ ss.exp = "Wait"
    /\ h.sent = MaxDwell + 1
    /\ h.lasts = 1

\* the 16-bit word at bytes i, i + 1 of a record, first byte high
WordAt(rec, i) == 256 * rec[i] + rec[i + 1]

\* the dwell values of a tag 2 record: a count, then count words
BatchDwells(rec) == [i \in 1..WordAt(rec, 2) |-> WordAt(rec, 2 + 2 * i)]

\* C12 (RasterPixel fan-out): a tag 2 record of a count and count dwell values
\* yields count RasterPixel commands with those dwell values in order, and the
\* parser is back in Type after the last of them.
C12_RasterPixelFanOut ==
    env.rec \in BatchRecords =>
        LET dwells == BatchDwells(env.rec)
        IN  \A i \in 1..Len(h.cmds) :
                i <= Len(dwells) =>
                    /\ h.cmds[i].cmd.type = T_RasterPixel
                    /\ View(h.cmds[i].cmd.payload, V_raster_pixel) = dwells[i]
                    /\ h.cmds[i].next = (IF i = Len(dwells) THEN "Type" ELSE h.cmds[i].next)

\* the payload bytes the parser reads after a tag
PayloadBytes(tag) ==
    CASE tag = T_Synchronize -> 3
      [] tag = T_RasterRegion -> 12
      [] tag = T_RasterPixelRun -> 4
      [] tag = T_VectorPixel -> 6
      [] tag = T_Control -> 1

\* the field values a fixed-layout record encodes, the 14-bit fields modulo 2^14
ExpectedFields(rec) ==
    CASE rec[1] = T_Synchronize -> <<WordAt(rec, 2), rec[4] % 2>>
      [] rec[1] = T_RasterRegion ->
            <<WordAt(rec, 2) % 16384, WordAt(rec, 4) % 16384, WordAt(rec, 6),
              WordAt(rec, 8) % 16384, WordAt(rec, 10) % 16384, WordAt(rec, 12)>>
      [] rec[1] = T_RasterPixelRun -> <<WordAt(rec, 2), WordAt(rec, 4)>>
      [] rec[1] = T_VectorPixel ->
            <<WordAt(rec, 2) % 16384, WordAt(rec, 4) % 16384, WordAt(rec, 6)>>
      [] rec[1] = T_Control -> <<rec[2]>>

\* the field values of a submitted command
CommandFields(cmd) ==
    LET p == cmd.payload
    IN  CASE cmd.type = T_Synchronize -> <<View(p, V_cookie), View(p, V_raster_mode)>>
          [] cmd.type = T_RasterRegion ->
                <<View(p, V_x_start), View(p, V_x_count), View(p, V_x_step),
                  View(p, V_y_start), View(p, V_y_count), View(p, V_y_step)>>
          [] cmd.type = T_RasterPixelRun -> <<View(p, V_run_length), View(p, V_run_dwell)>>
          [] cmd.type = T_VectorPixel ->
                <<View(p, V_x_coord), View(p, V_y_coord), View(p, V_vec_dwell)>>
          [] cmd.type = T_Control -> <<View(p, V_control_instruction)>>
          [] OTHER -> <<>>

\* the first command submitted is the one the fixed-layout record encodes,
\* submitted when exactly the bytes up to the end of the record are consumed
FirstIsRecord ==
    Len(h.cmds) >= 1 =>
        /\ h.cmds[1].cmd.type = env.rec[1]
        /\ CommandFields(h.cmds[1].cmd) = ExpectedFields(env.rec)
        /\ h.cmds[1].at = Len(env.junk) + 1 + PayloadBytes(env.rec[1])
        /\ h.cmds[1].next = "Type"

\* C16 (output hold): while a command is offered the parser accepts no byte,
\* the offered command does not change until it is taken, and a command is
\* offered only when a whole record has been consumed, one command per record.
C16_OutputHold ==
    /\ [](cmd_valid(par) = 1 => usb_ready(par) = 0)
    /\ [][cmd_valid(par) = 1 =>
            /\ par'.command = par.command
            /\ h'.consumed = h.consumed
            /\ (par' = par \/ (cmd_valid(par') = 0 /\ Len(h'.cmds) = Len(h.cmds) + 1))]_vars
    /\ []((cmd_valid(par) = 1 /\ env.rec \in FixedRecords) =>
            /\ Len(h.cmds) <= 1
            /\ h.consumed = Len(env.junk) + Len(env.rec)
                            + (IF Len(h.cmds) = 1 THEN Len(control(I_Flush)) ELSE 0))

\* a Synchronize is offered, complete
C16_Witness ==
    /\ cmd_valid(par) = 1
    /\ h.cmds = <<>>
    /\ par.command.type = T_Synchronize
    /\ View(par.command.payload, V_cookie) = 4660

\* C17 (fixed-layout decode): after the tag of a Synchronize, RasterRegion,
\* RasterPixelRun, VectorPixel or Control record the parser reads 3, 12, 4, 6
\* or 1 bytes, ready throughout, each 16-bit word high byte first, raster_mode
\* from bit 0 of the flags byte, and submits one command with those fields.
C17_FixedLayoutDecode ==
    (env.rec \in FixedRecords /\ env.junk = <<>>) =>
        /\ Len(env.rec) = 1 + PayloadBytes(env.rec[1])
        /\ (h.cmds = <<>> /\ h.consumed < Len(env.rec)) =>
              (usb_ready(par) = 1 /\ cmd_valid(par) = 0)
        /\ (h.cmds = <<>> /\ h.consumed = Len(env.rec)) => cmd_valid(par) = 1
        /\ FirstIsRecord
        /\ h.consumed <= Len(env.rec) => Len(h.cmds) <= 1

\* the RasterRegion record has been submitted, with fields above 14 bits cut
C17_Witness ==
    /\ env.junk = <<>>
    /\ Len(h.cmds) >= 1
    /\ h.cmds[1].cmd.type = T_RasterRegion
    /\ CommandFields(h.cmds[1].cmd) = <<5, 1, 384, 16383, 2, 32769>>
    /\ h.cmds[1].at = 13

\* C18 (unrecognized tag): a byte that is no tag, received in the Type state,
\* yields no command and leaves the parser in Type with ready asserted; the
\* record that follows is decoded.
C18_UnknownTagSkipped ==
    env.junk # <<>> =>
        /\ h.consumed <= Len(env.junk) =>
              (par.fsm = "Type" /\ usb_ready(par) = 1 /\ cmd_valid(par) = 0 /\ h.cmds = <<>>)
        /\ env.rec \in FixedRecords => FirstIsRecord

\* the VectorPixel record after the byte 255 has been submitted
C18_Witness ==
    /\ env.junk = <<255>>
    /\ Len(h.cmds) >= 1
    /\ h.cmds[1].cmd.type = T_VectorPixel
    /\ CommandFields(h.cmds[1].cmd) = <<3, 16383, 772>>

\* the last record fetched is a RasterPixelRun
RunFetched == h.last # <<>> /\ h.last[1] = T_RasterPixelRun

\* C13 (RasterPixelRun repetition): a RasterPixelRun of length L causes
\* exactly L accepted dwell submissions before the executor returns to Fetch,
\* and run_length is back at 0 then.
C13_RunRepetition ==
    RunFetched =>
        /\ h.csub <= WordAt(h.last, 2)
        /\ ex.fsm = "Fetch" => (h.csub = WordAt(h.last, 2) /\ ex.run_length = 0)

\* the supersampler accepts an input in this tick
SsAccepts == ss_dac_ready(ss) = 1 /\ ss_dac_valid(ex, rs) = 1

\* C19 (mode-selected source): in vector mode an accepted VectorPixel reaches
\* the supersampler as the (x, y, dwell) of its record and leaves the raster
\* scanner unchanged; in raster mode the supersampler input is the scanner's
\* coordinates with the dwell of the command; never are both sources connected.
C19_ModeSelectedSource ==
    /\ []~(rs_dac_ready(ex, ss) = 1 /\ vector_ready(ex, ss) = 1)
    /\ [](ex.raster_mode = 0 => rs_dac_ready(ex, ss) = 0)
    /\ [](ex.raster_mode = 1 => vector_ready(ex, ss) = 0)
    /\ [][SsAccepts =>
            IF ex.raster_mode = 0
            THEN /\ h.last[1] = T_VectorPixel
                 /\ ss'.dac_x_code = WordAt(h.last, 2)
                 /\ ss'.dac_y_code = WordAt(h.last, 4)
                 /\ ss'.dwell_time = WordAt(h.last, 6)
                 /\ rs' = rs
            ELSE /\ h.last[1] \in {T_RasterPixel, T_RasterPixelRun}
                 /\ ss'.dac_x_code = Code(rs.x_accum)
                 /\ ss'.dac_y_code = Code(rs.y_accum)
                 /\ ss'.dwell_time = WordAt(h.last, Len(h.last) - 1)
                 /\ rs' # rs]_vars

\* a vector pixel is in the supersampler after a raster scan has begun
C19_Witness ==
    /\ ex.raster_mode = 0
    /\ rs.fsm = "Scan"
    /\ rs.x_count = 1
    /\ h.last = vector_pixel(16383, 9, MaxDwell)
    /\ h.csub = 1
    /\ ss.dac_x_code = 16383
    /\ ss.dac_y_code = 9
    /\ ss.dwell_time = MaxDwell

\* C20 (row wrap): at the start of every row the x accumulator holds x_start
\* of the region latched when the scan began, shifted by FRAC_BITS, whatever
\* command supplies the dwell.
C20_RowWrap ==
    (rs.fsm = "Scan" /\ rs.x_count = 0) => rs.x_accum = StartAccum(rs.region.x_start)

\* C14 (flush propagation): in a tick in which img_stream.flush is asserted
\* the serializer asserts usb_stream.flush.
C14_FlushPropagation == h.flush_in = 1 => h.flush_out = 1

\* the bytes of a sequence of words, each word high byte first
RECURSIVE WordBytes(_)
WordBytes(ws) ==
    IF ws = <<>> THEN <<>>
    ELSE <<Head(ws) \div 256, Head(ws) % 256>> \o WordBytes(Tail(ws))

\* C15 (pixel serialization): the bytes transferred on usb_stream are the
\* high and low bytes of the accepted words in order; a word is accepted in
\* the tick its high byte is transferred, none while the low byte is pending,
\* and the pending low byte is the one of the word accepted last.
C15_PixelSerialization ==
    /\ Len(h.bytes) = 2 * Len(h.words) - (IF ser.fsm = "Low" THEN 1 ELSE 0)
    /\ h.bytes = SubSeq(WordBytes(h.words), 1, Len(h.bytes))
    /\ ser.fsm = "Low" =>
          /\ h.words # <<>>
          /\ ser.high = h.words[Len(h.words)] % 256
          /\ ser_usb_valid(ser, 0) = 1
          /\ \A u_ready \in {0, 1} : ser_img_ready(ser, u_ready) = 0

\* two words have gone out as four bytes
C15_Witness ==
    /\ h.words = <<4660, 65280>>
    /\ h.bytes = <<18, 52, 255, 0>>
    /\ ser.fsm = "High"

\* C21 (abort in the scanner): after a tick in which abort is asserted while
\* the scanner is in Scan, with or without a handshake in that tick, the
\* scanner awaits the next region.
C21_ScannerAbort == h.aborted = 1 => rs.fsm = "Get ROI"

\* a region and a scanner state with the y_step field cleared
NoYStep(region) == [region EXCEPT !.y_step = 0]

ScannerNoYStep(r) == [r EXCEPT !.region = NoYStep(r.region)]

\* C25 (y advances by x_step): the y accumulator is y_start << 8 plus x_step
\* for every row wrap, and y_step influences nothing: for every input of a
\* tick, the coordinates presented and the next state are those of a scanner
\* whose regions have y_step cleared.
C25_YStepUnused ==
    /\ rs.fsm = "Scan" =>
          rs.y_accum = Trunc(StartAccum(rs.region.y_start) + rs.y_count * rs.region.x_step,
                             14 + FRAC_BITS)
    /\ \A roi_valid \in {0, 1}, roi \in Regions, dwell_valid \in {0, 1},
          dac_ready \in {0, 1}, abort \in {0, 1} :
            /\ ScannerNoYStep(RsNext(rs, roi_valid, roi, dwell_valid, dac_ready, abort))
                  = RsNext(ScannerNoYStep(rs), roi_valid, NoYStep(roi), dwell_valid,
                           dac_ready, abort)
            /\ rs_dac_data(ScannerNoYStep(rs), 0) = rs_dac_data(rs, 0)
            /\ rs_dac_valid(ScannerNoYStep(rs), dwell_valid) = rs_dac_valid(rs, dwell_valid)

\* the second row of a region whose y_step differs from its x_step
C25_Witness ==
    /\ rs.fsm = "Scan"
    /\ rs.region.x_step = 384
    /\ rs.region.y_step = 128
    /\ rs.y_count = 1
    /\ rs.y_accum = 896
    /\ Len(h.coords) >= 3

\* C26 (fixed-point coordinates): the k-th pixel of a row is presented with
\* the integer part of (x_start << 8) + k * x_step, modulo 2^14, and the y
\* code is the integer part of the y accumulator.
C26_FixedPointCoordinates ==
    rs.fsm = "Scan" =>
        LET x == Trunc(StartAccum(rs.region.x_start) + rs.x_count * rs.region.x_step,
                       14 + FRAC_BITS)
        IN  /\ rs.x_accum = x
            /\ rs_dac_data(rs, 0).dac_x_code = (x \div 256) % 16384
            /\ rs_dac_data(rs, 0).dac_y_code = (rs.y_accum \div 256) % 16384

\* neither the accept queue nor the ADC FIFO holds a conversion
BusDrained == bus.accept_sample = 0 /\ fifo.q = <<>> /\ fifo.r_rdy = 0

\* C22 (bus conservation): every DAC transaction accepted yields one item on
\* adc_stream, in acceptance order and with its last flag: every item
\* delivered is the oldest one outstanding, and once queue and FIFO have
\* drained no accepted transaction is outstanding.
C22_BusConservation ==
    /\ h.bad = 0
    /\ BusDrained => h.lasts = <<>>

\* C23 (accept/discard queue): in an AdcRead tick a conversion is written if
\* and only if a DAC transaction was accepted exactly adc_latency AdcRead
\* ticks earlier, with the last flag of that transaction; nothing is written
\* in another tick.
C23_AcceptDiscardQueue ==
    /\ bus.fsm # "ADC Read" => bus_w_en(bus) = 0
    /\ bus.fsm = "ADC Read" =>
          LET due == Len(h.hist) = adc_latency /\ h.hist[1].acc = 1
          IN  /\ bus_w_en(bus) = (IF due THEN 1 ELSE 0)
              /\ due => bus_w_data(bus, 0).last = h.hist[1].last

\* a conversion with last set is due, after five AdcRead ticks without one
C23_Witness ==
    /\ bus.fsm = "ADC Read"
    /\ Len(h.hist) = adc_latency
    /\ h.hist[1] = [acc |-> 1, last |-> 1]
    /\ \A i \in 2..adc_latency : h.hist[i].acc = 0
    /\ bus_w_en(bus) = 1

\* ticks since the rising edge of adc_clk
ClockPhase == IF bus.adc_clk = 1 THEN bus.adc_cycles ELSE bus.half + bus.adc_cycles

\* C24 (bus cycle per ADC period): under either half period the controller is
\* in AdcWait at the rising edge of adc_clk, in AdcRead in the tick after it,
\* then in XWrite and YWrite with the latch strobes, and in AdcWait for the
\* rest of the period.
C24_BusCycle ==
    env.idle = 1 =>
        /\ (bus.adc_clk = 1 /\ bus.adc_cycles = 0) => bus.fsm = "ADC Wait"
        /\ bus.fsm = "ADC Read" <=> ClockPhase = 1
        /\ bus.fsm = "X DAC Write" <=> (ClockPhase = 2 /\ h.hist # <<>>)
        /\ bus.fsm = "Y DAC Write" <=> (ClockPhase = 3 /\ h.hist # <<>>)
        /\ dac_x_le(bus) = 1 <=> (ClockPhase = 2 /\ h.hist # <<>>)
        /\ dac_y_le(bus) = 1 <=> (ClockPhase = 3 /\ h.hist # <<>>)

\* the Y strobe of the third period under the half period 2
C24_Witness ==
    /\ env.idle = 1
    /\ bus.half = 2
    /\ dac_y_le(bus) = 1
    /\ Len(h.hist) = 3
    /\ ClockPhase = 3

\* C27 (data hold on super_dac_stream): while valid is asserted a tick without
\* ready leaves the supersampler as it is, and the item presented (x code, y
\* code, last) is the same without ready as at the handshake.
C27_SuperDacHold ==
    super_dac_valid(ss) = 1 =>
        /\ \A dac_valid \in {0, 1} :
              ExpandNext(ss, dac_valid, super_dac_data(ss, 0), 0) = ss
        /\ super_dac_data(ss, 1) = super_dac_data(ss, 0)

\* the cookie word of the Synchronize being executed is transferred
CookieTransferred == ex.out = "Write cookie" /\ ex'.out = "Imaging"

\* C28 (raster_mode changes only through the barrier): raster_mode is 0 until
\* a command is fetched; it changes only in the tick after the acknowledgement
\* of a Synchronize, to bit 0 of the flags byte of that record; the executor
\* stays in Execute on a Synchronize until then; no other command changes it.
C28_ModeThroughBarrier ==
    /\ [](h.last = <<>> => ex.raster_mode = 0)
    /\ [][ex'.raster_mode # ex.raster_mode =>
            (Executing(ex, T_Synchronize) /\ CookieTransferred)]_vars
    /\ [][Executing(ex, T_Synchronize) =>
            IF CookieTransferred
            THEN /\ ex'.raster_mode = h.last[4] % 2
                 /\ ex'.fsm = "Fetch"
            ELSE /\ ex'.raster_mode = ex.raster_mode
                 /\ Executing(ex', T_Synchronize)
                 /\ ex'.command = ex.command]_vars
    /\ [][(ex.fsm = "Execute" /\ ex.command.type # T_Synchronize) =>
            ex'.raster_mode = ex.raster_mode]_vars

\* back in vector mode by the second Synchronize, after a raster scan
C28_Witness ==
    /\ ex.raster_mode = 0
    /\ ex.fsm = "Fetch"
    /\ h.last = sync_cookie(4660, 0)
    /\ rs.fsm = "Scan"
    /\ rs.x_count = 1

\* a Control command drives no stream and no request of the executor
ControlDrivesNothing ==
    Executing(ex, T_Control) =>
        /\ submit_pixel(ex, rs, ss) = 0
        /\ ss_dac_valid(ex, rs) = 0
        /\ ex_roi_valid(ex) = 0
        /\ ex_dwell_valid(ex) = 0
        /\ sync_req(ex) = 0

\* the tick of a Control command: back to Fetch, raster_mode and run_length
\* kept, in_flight_pixels changed by a retirement only, no pixel entering the
\* supersampler
ControlTick ==
    Executing(ex, T_Control) =>
        LET retired == IF ex.out = "Imaging" /\ ss.avg = "Wait" /\ ss'.avg = "Start"
                       THEN 1 ELSE 0
        IN  /\ ex'.fsm = "Fetch"
            /\ ex'.raster_mode = ex.raster_mode
            /\ ex'.run_length = ex.run_length
            /\ ex'.in_flight_pixels = InFlight(ex.in_flight_pixels, 0, retired)
            /\ ss.exp = "Wait" => ss'.exp = "Wait"
            /\ <<ss'.dac_x_code, ss'.dac_y_code, ss'.dwell_time>>
                  = <<ss.dac_x_code, ss.dac_y_code, ss.dwell_time>>
            /\ h'.owed \in {h.owed, h.owed - 1}

\* C29 (Abort/Flush leave in-flight work untouched): a Control command takes
\* one Execute tick, submits nothing, changes neither raster_mode nor, by
\* itself, in_flight_pixels or the supersampler, and every pixel submitted
\* before it is still retired: when the pipeline has drained after it, as many
\* pixel words have been transferred as pixels were submitted.
C29_ControlFrame ==
    /\ ControlDrivesNothing
    /\ (PipelineEmpty /\ ex.fsm = "Fetch" /\ ex.command.type = T_Control) => h.owed = 0

\* the part of C29 about the tick of the Control command itself
C29_ControlTickFrame == [][ControlTick]_vars

\* the output-merge FSM writes the marker or the cookie
WritingMarker == ex.out \in {"Write FFFF", "Write cookie"}

\* C30 (output-merge frame): the output-merge FSM leaves Imaging only in a
\* tick with in_flight_pixels = 0 and a Synchronize pending; while it writes
\* the marker or the cookie it takes no sample from the supersampler, retires
\* no pixel and does not decrement in_flight_pixels; it is back in Imaging
\* only by the transfer of the cookie word.
C30_OutputMergeFrame ==
    /\ [](WritingMarker =>
            \A img_ready \in {0, 1} :
                /\ ss_adc_ready(ex, img_ready) = 0
                /\ retire_pixel(ex, ss, img_ready) = 0)
    /\ [][(ex.out = "Imaging" /\ ex'.out # "Imaging") =>
            /\ ex.in_flight_pixels = 0
            /\ sync_req(ex) = 1
            /\ ex'.out = "Write FFFF"]_vars
    /\ [][WritingMarker =>
            /\ ex'.in_flight_pixels # (ex.in_flight_pixels + 15) % 16
            /\ ss.avg = "Wait" => (ss'.avg = "Wait" /\ ss'.running_average = ss.running_average)
            /\ h'.owed >= h.owed]_vars
    /\ [][(WritingMarker /\ ex'.out = "Imaging") =>
            /\ ex.out = "Write cookie"
            /\ h'.ack = 1
            /\ h'.w2 = h.cookie]_vars

\* the cookie 65535 is about to be written after the marker, every pixel
\* submitted before having been transferred
C30_Witness ==
    /\ ex.out = "Write cookie"
    /\ ex.in_flight_pixels = 0
    /\ h.cookie = 65535
    /\ h.w2 = 65535
    /\ h.mk = 1
    /\ h.owed = 0
    /\ h.lost = 0

\* C31 (averager holds its result): from the tick after the sample with last
\* set is consumed until the result is retired, the averager offers valid with
\* an unchanging value and accepts no ADC sample; it leaves only to Start, and
\* the next window is seeded from its own first sample.
C31_AveragerHold ==
    /\ [](h.closed = 1 <=> ss.avg = "Wait")
    /\ [](ss.avg = "Wait" => (ss_adc_valid(ss) = 1 /\ super_adc_ready(ss) = 0))
    /\ [][ss.avg = "Wait" =>
            /\ ss'.running_average = ss.running_average
            /\ ss'.avg \in {"Wait", "Start"}
            /\ h'.window \in {h.window, <<>>}]_vars
    /\ [][(ss.avg = "Start" /\ ss'.avg # "Start") =>
            /\ Len(h'.window) = 1
            /\ ss'.running_average = h'.window[1]]_vars

\* the average of the window 6, 16383 waits for the consumer
C31_Witness ==
    /\ ss.avg = "Wait"
    /\ h.closed = 1
    /\ h.window = <<6, 16383>>
    /\ ss.running_average = 8194

\* the newest entry of the accept queue is a discard
NewestDiscard(b) == b.accept_sample % 2 = 0

\* C32 (discarded round keeps DAC codes): in an AdcRead tick without a DAC
\* transfer ready is not asserted, the latched x and y codes are kept and a
\* discard entry is queued; the XWrite and YWrite ticks that follow drive and
\* strobe the codes latched before.
C32_DiscardKeepsCodes ==
    /\ [](bus.fsm = "ADC Read" =>
            \A dac_valid \in {0, 1}, w_rdy \in {0, 1}, x \in DacCodes :
                (dac_valid = 0 \/ w_rdy = 0) =>
                    LET next == BusNext(bus, dac_valid,
                                        [dac_x_code |-> x, dac_y_code |-> x, last |-> 1],
                                        w_rdy)
                    IN  /\ bus_dac_ready(bus, dac_valid, w_rdy) = 0
                        /\ next.dac_x_code = bus.dac_x_code
                        /\ next.dac_y_code = bus.dac_y_code
                        /\ next.accept_sample = (2 * bus.accept_sample) % 64
                        /\ next.fsm = "X DAC Write")
    /\ [][(bus.fsm = "ADC Read" /\ NewestDiscard(bus')) =>
            /\ bus'.dac_x_code = bus.dac_x_code
            /\ bus'.dac_y_code = bus.dac_y_code
            /\ bus'.fsm = "X DAC Write"]_vars
    /\ [][bus.fsm = "X DAC Write" =>
            /\ data_o(bus) = bus.dac_x_code
            /\ data_oe(bus) = 1
            /\ dac_x_le(bus) = 1
            /\ bus'.fsm = "Y DAC Write"
            /\ bus'.dac_x_code = bus.dac_x_code
            /\ bus'.dac_y_code = bus.dac_y_code
            /\ data_o(bus') = bus.dac_y_code
            /\ data_oe(bus') = 1
            /\ dac_y_le(bus') = 1]_vars

\* the X write of a discarded round drives the code 16383 latched before
C32_Witness ==
    /\ bus.fsm = "X DAC Write"
    /\ NewestDiscard(bus)
    /\ bus.accept_sample # 0
    /\ bus.dac_x_code = 16383
    /\ data_o(bus) = 16383
    /\ dac_x_le(bus) = 1

\* C33 (free-running clock): in every tick, whatever the FSM state, the
\* stream activity and the backpressure, the divider counts modulo the half
\* period and adc_clk toggles exactly in the tick where the count is at
\* half period - 1, so once every half period ticks; dac_clk equals adc_clk.
C33_FreeRunningClock ==
    /\ [](env.idle = 1 =>
            /\ bus.half = env.half
            /\ bus.adc_cycles \in 0..(bus.half - 1)
            /\ dac_clk(bus) = bus.adc_clk)
    /\ [][env.idle = 1 =>
            /\ bus'.adc_cycles = (bus.adc_cycles + 1) % bus.half
            /\ (bus'.adc_clk # bus.adc_clk) <=> (bus.adc_cycles = bus.half - 1)
            /\ (bus'.adc_clk # bus.adc_clk) <=> (bus'.adc_cycles = 0)
            /\ bus'.adc_clk \in {0, 1}]_vars

\* adc_clk has just risen while the ADC FIFO is full and a sample was lost
C33_Witness ==
    /\ env.idle = 1
    /\ bus.adc_clk = 1
    /\ bus.adc_cycles = 0
    /\ fifo_w_rdy(fifo) = 0
    /\ h.lost = 1
    /\ dac_clk(bus) = 1

\* C36 (no bus contention): in every tick data_oe is asserted exactly when
\* dac_x_le or dac_y_le is asserted, data_oe is never asserted together with
\* adc_oe, and dac_x_le and dac_y_le are never asserted in the same tick.
C36_NoBusContention ==
    /\ data_oe(bus) = 1 <=> (dac_x_le(bus) = 1 \/ dac_y_le(bus) = 1)
    /\ ~(data_oe(bus) = 1 /\ adc_oe(bus) = 1)
    /\ ~(dac_x_le(bus) = 1 /\ dac_y_le(bus) = 1)
    /\ data_oe(bus) + adc_oe(bus) <= 1

\* the FPGA alone drives the Y code 16380 of an accepted transfer
C36_Witness ==
    /\ data_oe(bus) = 1
    /\ dac_y_le(bus) = 1
    /\ dac_x_le(bus) = 0
    /\ adc_oe(bus) = 0
    /\ data_o(bus) = 16380
    /\ bus.accept_sample % 2 = 1

\* C37 (marker is unambiguous): the word offered on img_stream while the
\* output-merge FSM is in Imaging is a zero-extended 14-bit value, never
\* 0xFFFF; the word 0xFFFF is offered only as the first word of a marker pair
\* or as a cookie, and a transferred 0xFFFF is either the marker whose cookie
\* is due next or the cookie that followed a marker.
C37_MarkerUnambiguous ==
    /\ ex.out = "Imaging" =>
            /\ img_data(ex, ss) \in 0..16383
            /\ img_data(ex, ss) # 65535
    /\ img_data(ex, ss) = 65535 =>
            \/ ex.out = "Write FFFF"
            \/ ex.out = "Write cookie" /\ h.cookie = 65535
    /\ ToString(h.w2) = ToString(65535) =>
            \/ ex.out = "Write cookie"
            \/ ToString(h.w1) = ToString(65535)

\* the largest pixel word is offered in Imaging
C37_Witness ==
    /\ ex.out = "Imaging"
    /\ img_valid(ex, ss) = 1
    /\ img_data(ex, ss) = 16383
    /\ h.lost = 0

\* the least and the greatest sample of a window
WindowMin(w) == CHOOSE a \in {w[i] : i \in DOMAIN w} : \A i \in DOMAIN w : a <= w[i]

WindowMax(w) == CHOOSE a \in {w[i] : i \in DOMAIN w} : \A i \in DOMAIN w : a >= w[i]

\* C38 (running average stays in range): after every update the running
\* average lies between the least and the greatest sample consumed so far in
\* the window; the sum with any further 14-bit sample fits 15 bits and its
\* half fits the 14-bit register, so nothing is lost by the truncation.
C38_AverageInRange ==
    h.window # <<>> =>
        /\ WindowMin(h.window) <= ss.running_average
        /\ ss.running_average <= WindowMax(h.window)
        /\ ss.running_average \in 0..16383
        /\ \A code \in SampleCodes :
              /\ ss.running_average + code < 32768
              /\ (ss.running_average + code) \div 2 < 16384
              /\ Average(ss.running_average, code) = (ss.running_average + code) \div 2

\* two samples of the largest code average to the largest code
C38_Witness ==
    /\ h.window = <<16383, 16383>>
    /\ ss.running_average = 16383
    /\ ss.avg = "Average"

(***************************************************************************)
(* One VectorPixel through parser, executor, supersampler and bus.  The    *)
(* 16-bit coordinate fields of the wire record are those the host encoder  *)
(* accepts (up to 16384) and wider ones written to the wire directly.      *)
(***************************************************************************)
VectorFields == {3, 16384, 16387, 65535}

\* the wire record of a VectorPixel: tag, x, y and dwell, big-endian
VectorWire(x_coord, y_coord, dwell_time) ==
    PackB(T_VectorPixel) \o PackH(x_coord) \o PackH(y_coord) \o PackH(dwell_time)

\* x, y: the wire fields of the record fetched; latched: the bus has accepted
\* a transfer
VectorInit ==
    /\ PipeInit
    /\ \E x \in VectorFields, y \in VectorFields, d \in Dwells :
          env = [todo |-> <<IF x <= 16384 /\ y <= 16384
                            THEN vector_pixel(x, y, d)
                            ELSE VectorWire(x, y, d)>>]
    /\ h = [x |-> 0, y |-> 0, fetched |-> 0, latched |-> 0]

VectorTick(rec, img_ready) ==
    LET c_data == IF rec = <<>> THEN ex.command ELSE ParsedCommand(ex.command, rec)
        c_valid == IF rec = <<>> THEN 0 ELSE 1
        accept == bus_dac_ready(bus, super_dac_valid(ss), fifo_w_rdy(fifo)) = 1
    IN  /\ PipeTick(c_valid, c_data, img_ready, 16383)
        /\ h' = [x       |-> IF rec # <<>> THEN 256 * rec[2] + rec[3] ELSE h.x,
                 y       |-> IF rec # <<>> THEN 256 * rec[4] + rec[5] ELSE h.y,
                 fetched |-> IF rec # <<>> THEN 1 ELSE h.fetched,
                 latched |-> IF accept THEN 1 ELSE h.latched]
        /\ UNCHANGED <<par, ser>>

VectorCmd ==
    /\ ex.fsm = "Fetch"
    /\ env.todo # <<>>
    /\ \E img_ready \in {0, 1} : VectorTick(Head(env.todo), img_ready)
    /\ env' = [env EXCEPT !.todo = Tail(env.todo)]

VectorNoCmd ==
    /\ \E img_ready \in {0, 1} : VectorTick(<<>>, img_ready)
    /\ UNCHANGED env

NextVector == VectorCmd \/ VectorNoCmd

SpecVector == VectorInit /\ [][NextVector]_vars

\* C39 (14-bit coordinate truncation): the x and y codes of a VectorPixel,
\* as the executor offers them, as the bus latches them and as the bus drives
\* them in the XWrite and YWrite ticks, are the 16-bit wire fields modulo
\* 2^14; the field 16384 is driven as the code 0.
C39_CoordinateTruncation ==
    /\ h.fetched = 1 =>
            /\ vector_data(ex).dac_x_code = h.x % 16384
            /\ vector_data(ex).dac_y_code = h.y % 16384
    /\ h.latched = 1 =>
            /\ bus.dac_x_code = h.x % 16384
            /\ bus.dac_y_code = h.y % 16384
            /\ bus.fsm = "X DAC Write" => data_o(bus) = h.x % 16384
            /\ bus.fsm = "Y DAC Write" => data_o(bus) = h.y % 16384
    /\ (h.latched = 1 /\ h.x = 16384 /\ bus.fsm = "X DAC Write") => data_o(bus) = 0
    /\ (h.latched = 1 /\ h.y = 16384 /\ bus.fsm = "Y DAC Write") => data_o(bus) = 0

\* the encoder's x = 16384 is strobed into the X DAC as the code 0
C39_Witness ==
    /\ h.latched = 1
    /\ h.x = 16384
    /\ h.y = 16384
    /\ bus.fsm = "X DAC Write"
    /\ dac_x_le(bus) = 1
    /\ data_o(bus) = 0
    /\ bus.accept_sample % 2 = 1

(***************************************************************************)
(* RasterScanCommand.transfer: the sender task and the receiving loop on   *)
(* one asyncio event loop.  The code between two awaits is one step; every *)
(* await is a point where the other task may run.  The host state is kept  *)
(* in env:                                                                 *)
(*   n         number of chunks _iter_chunks yields                        *)
(*   tokens    the token counter                                           *)
(*   fut       index of the Future token_fut is bound to                   *)
(*   spc       the await the sender is at                                  *)
(*   awaited   index of the Future the sender awaits                       *)
(*   rpc       the await the receiving loop is at                          *)
(*   written   chunks passed to stream.write                               *)
(*   started   iterations of the receiving loop begun                      *)
(*   completed chunks whose results recv_res has returned                  *)
(* A Future is done exactly if its index is below fut: token_fut is        *)
(* rebound to a new Future right after set_result.                         *)
(***************************************************************************)
MAX_PIPELINE == 32

MaxPoints == 34

\* the number of chunks _iter_chunks yields for a scan of the given points
\* (a chunk is closed at the first point where the dwell summed since the
\* last chunk is at least latency, and after the last point if any is left)
ChunkCount(points, dwell, latency) ==
    IF dwell >= latency
    THEN points
    ELSE IF dwell <= 0
    THEN IF points > 0 THEN 1 ELSE 0
    ELSE LET per == (latency + dwell - 1) \div dwell
         IN  (points + per - 1) \div per

HostInit ==
    /\ PipeInit
    /\ \E points \in 0..MaxPoints, dwell \in {0, 1}, latency \in {0, 1, 2} :
          env = [n |-> ChunkCount(points, dwell, latency), tokens |-> MAX_PIPELINE,
                 fut |-> 0, spc |-> "start", awaited |-> 0, rpc |-> "cookie",
                 written |-> 0, started |-> 0, completed |-> 0]
    /\ h = [flushes |-> 0]

HostFrame == UNCHANGED <<bus, fifo, ss, rs, ex, par, ser>>

\* the sender starts, or returns from sleep(0), and takes the next chunk:
\* without a token it sends a Flush, with one it writes the chunk
SenderIter ==
    /\ env.spc \in {"start", "sleep"}
    /\ IF env.written = env.n
       THEN /\ env' = [env EXCEPT !.spc = "final"]
            /\ UNCHANGED h
       ELSE IF env.tokens = 0
       THEN /\ env' = [env EXCEPT !.spc = "flush"]
            /\ h' = [h EXCEPT !.flushes = h.flushes + 1]
       ELSE /\ env' = [env EXCEPT !.spc = "write", !.written = env.written + 1]
            /\ UNCHANGED h
    /\ HostFrame

\* the Flush is transferred; the sender awaits the Future token_fut is bound to
SenderFlushed ==
    /\ env.spc = "flush"
    /\ env' = [env EXCEPT !.spc = "wait", !.awaited = env.fut]
    /\ UNCHANGED h
    /\ HostFrame

\* the awaited Future is done; the sender writes the chunk
SenderWoken ==
    /\ env.spc = "wait"
    /\ env.awaited < env.fut
    /\ env' = [env EXCEPT !.spc = "write", !.written = env.written + 1]
    /\ UNCHANGED h
    /\ HostFrame

\* stream.write returns; tokens -= 1; await asyncio.sleep(0)
SenderWritten ==
    /\ env.spc = "write"
    /\ env' = [env EXCEPT !.spc = "sleep", !.tokens = env.tokens - 1]
    /\ UNCHANGED h
    /\ HostFrame

\* the Flush after the last chunk is transferred
SenderFinal ==
    /\ env.spc = "final"
    /\ env' = [env EXCEPT !.spc = "done"]
    /\ UNCHANGED h
    /\ HostFrame

\* the cookie is read, or the consumer asks for the next result: the loop
\* returns a token, wakes the sender if it is the only token, and awaits the
\* results of its chunk
RecvIter ==
    /\ env.rpc \in {"cookie", "yield"}
    /\ IF env.started = env.n
       THEN env' = [env EXCEPT !.rpc = "done"]
       ELSE env' = [env EXCEPT !.rpc = "recv",
                               !.started = env.started + 1,
                               !.tokens = env.tokens + 1,
                               !.fut = IF env.tokens + 1 = 1 THEN env.fut + 1 ELSE env.fut]
    /\ UNCHANGED h
    /\ HostFrame

\* recv_res returns the results of a chunk that was written
RecvResult ==
    /\ env.rpc = "recv"
    /\ env.written >= env.started
    /\ env' = [env EXCEPT !.rpc = "yield", !.completed = env.completed + 1]
    /\ UNCHANGED h
    /\ HostFrame

NextHost ==
    \/ SenderIter \/ SenderFlushed \/ SenderWoken \/ SenderWritten \/ SenderFinal
    \/ RecvIter \/ RecvResult

SpecHost == HostInit /\ [][NextHost]_vars

\* C40 (host-side pipelining bound): the token counter is never negative, at
\* most MAX_PIPELINE chunks are written without their results received, and
\* the sender waits for a token exactly while none is left: it waits only
\* after a Flush sent without a token, and a sender that waits on a Future
\* not yet done has no token to take.
C40_PipeliningBound ==
    /\ env.tokens >= 0
    /\ env.written - env.completed <= MAX_PIPELINE
    /\ env.spc \in {"flush", "wait"} => h.flushes > 0
    /\ (env.spc = "wait" /\ env.awaited = env.fut) => env.tokens = 0

(***************************************************************************)
(* The executor pipeline with an outbound consumer that is always ready,   *)
(* driven with scripts of commands in and out of the mode and the scanner  *)
(* state they need, in the layouts the parser reads.  The clock always     *)
(* ticks: the fair specification adds weak fairness of the tick.           *)
(***************************************************************************)
SmallRegion == RegionWire(0, 2, 256, 0, 1, 256)

ReadyScripts ==
         {<<raster_pixel(d)>> : d \in Dwells}
    \cup {<<raster_pixel_run(1, d)>> : d \in Dwells}
    \cup {<<sync_cookie(65535, 1), raster_pixel(d)>> : d \in Dwells}
    \cup {<<sync_cookie(65535, 1), vector_pixel(3, 7, d)>> : d \in Dwells}
    \cup {<<sync_cookie(65535, 1), SmallRegion, raster_pixel(d), SmallRegion>> :
                d \in Dwells}
    \cup {<<sync_cookie(65535, 1), SmallRegion,
            raster_pixel_run(l1, 0), raster_pixel_run(l2, 1),
            raster_pixel_run(MaxRun, 0)>> :
                l1 \in 0..MaxRun, l2 \in 0..MaxRun}
    \cup {<<vector_pixel(3, 7, d), control(I_Abort), sync_cookie(65535, 1), SmallRegion,
            raster_pixel(d), control(I_Flush), sync_cookie(4660, 0),
            vector_pixel(16383, 9, d)>> : d \in Dwells}

ReadyInit ==
    /\ PipeInit
    /\ \E todo \in ReadyScripts : env = [todo |-> todo]
    /\ h = [csub |-> 0, last |-> <<>>]

ReadyCmd ==
    /\ ex.fsm = "Fetch"
    /\ env.todo # <<>>
    /\ ScriptTick(Head(env.todo), 1)
    /\ env' = [env EXCEPT !.todo = Tail(env.todo)]

ReadyNoCmd ==
    /\ ScriptTick(<<>>, 1)
    /\ UNCHANGED env

NextReady == ReadyCmd \/ ReadyNoCmd

SpecReady == ReadyInit /\ [][NextReady]_vars

\* the clock never stops; a script is finite, so all but finitely many ticks
\* are ticks without a command
SpecReadyFair == SpecReady /\ WF_vars(ReadyNoCmd)

ExecutingPixel == Executing(ex, T_RasterPixel) \/ Executing(ex, T_RasterPixelRun)

\* (a) a raster pixel or run with the scanner waiting for a region
StallAwaitRegion == ExecutingPixel /\ ex.raster_mode = 1 /\ rs.fsm = "Get ROI"

\* (b) a raster pixel or run in vector mode
StallRasterInVector == ExecutingPixel /\ ex.raster_mode = 0

\* (c) a vector pixel in raster mode
StallVectorInRaster == Executing(ex, T_VectorPixel) /\ ex.raster_mode = 1

\* (d) a region with the scanner still scanning
StallRegionInScan == Executing(ex, T_RasterRegion) /\ rs.fsm = "Scan"

Stalled ==
    StallAwaitRegion \/ StallRasterInVector \/ StallVectorInRaster \/ StallRegionInScan

\* C34 (stalls without backpressure): with a consumer that is always ready,
\* an executor in one of the stall cases (a) to (d) stays in Execute with the
\* same command and in the same case, accepts no submission and fetches
\* nothing; an executor in Execute in any other case eventually returns to
\* Fetch or reaches one of the stall cases.
C34_StallCases ==
    /\ [][StallAwaitRegion => StallAwaitRegion']_vars
    /\ [][StallRasterInVector => StallRasterInVector']_vars
    /\ [][StallVectorInRaster => StallVectorInRaster']_vars
    /\ [][StallRegionInScan => StallRegionInScan']_vars
    /\ [][Stalled => /\ ex'.fsm = "Execute"
                     /\ ex'.command = ex.command
                     /\ env'.todo = env.todo
                     /\ submit_pixel(ex, rs, ss) = 0]_vars
    /\ [](ex.fsm = "Execute" => <>(ex.fsm = "Fetch" \/ Stalled))
    /\ [](Stalled => [](ex.fsm = "Execute"))

\* a run that outlasts its region has stalled with the pipeline drained
C34_Witness ==
    /\ StallAwaitRegion
    /\ Executing(ex, T_RasterPixelRun)
    /\ h.csub > 0
    /\ PipelineEmpty
    /\ ex.in_flight_pixels = 0

\* a Synchronize waits for pixels in flight while nothing is left in the
\* supersampler, the bus queue, the ADC FIFO or the averager to retire
SyncStuck ==
    /\ Executing(ex, T_Synchronize)
    /\ ex.out = "Imaging"
    /\ PipelineEmpty
    /\ ex.in_flight_pixels # 0

\* C35 (Synchronize liveness): an accepted Synchronize is eventually
\* acknowledged, so it is never left waiting for in_flight_pixels to reach 0
\* with an empty pipeline, from where no tick, whatever the consumer does,
\* changes the executor.
C35_SyncLiveness == ~SyncStuck

\* a stuck Synchronize stays stuck in every tick, with the consumer ready or not
C35_StuckForever == [][SyncStuck => (SyncStuck' /\ ex' = ex)]_vars

=============================================================================
